---- MODULE Spec2Model ----
(***************************************************************************)
(* Explainable health scoring engine and its snapshot store                *)
(* (backend/app/health_scoring.py, backend/app/main.py,                    *)
(* backend/app/models.py).                                                 *)
(*                                                                         *)
(* Numbers the code holds as Python floats are exact rationals here        *)
(* ([n |-> numerator, d |-> denominator], in lowest terms, d > 0), so the  *)
(* arithmetic is the code's arithmetic without binary rounding.  An        *)
(* Optional field is <<>> (None) or <<v>>.  Dates are day numbers and      *)
(* datetimes are clock ticks, TicksPerDay ticks to the day.                *)
(***************************************************************************)
EXTENDS Integers, Sequences, FiniteSets, TLC

VARIABLES
    accounts,    \* table accounts: id -> row (committed database state)
    snapshots,   \* table health_snapshots, in insertion order
    metrics,     \* table account_metrics_daily, in insertion order
    now,         \* the clock datetime.utcnow() reads, in ticks
    last,        \* the last request handled and its response
    sessions,    \* per worker: the database session of a request in progress
    subject,     \* scoring harness: the Account handed to calculate_health_score
    result       \* scoring harness: what calculate_health_score returned

vars == <<accounts, snapshots, metrics, now, last, sessions, subject, result>>

(***************************************************************************)
(* Bounds of the model                                                     *)
(***************************************************************************)
TicksPerDay == 1
MaxTime == 2

(***************************************************************************)
(* Exact rational arithmetic: a number is [n, d] in lowest terms, d > 0    *)
(***************************************************************************)
Abs(i) == IF i < 0 THEN -i ELSE i

RECURSIVE Gcd(_, _)
Gcd(a, b) == IF b = 0 THEN a ELSE Gcd(b, a % b)

\* n/d with the common divisor g taken out and the sign in the numerator
Reduced(n, d, g) == [n |-> (IF d < 0 THEN -n ELSE n) \div g, d |-> Abs(d) \div g]

Q(n, d) == Reduced(n, d, Gcd(Abs(n), Abs(d)))

Int2Q(i) == [n |-> i, d |-> 1]

RAdd(x, y) == Q(x.n * y.d + y.n * x.d, x.d * y.d)

RSub(x, y) == Q(x.n * y.d - y.n * x.d, x.d * y.d)

RMul(x, y) == Q(x.n * y.n, x.d * y.d)

RDiv(x, y) == Q(x.n * y.d, x.d * y.n)

RLt(x, y) == x.n * y.d < y.n * x.d

RLe(x, y) == x.n * y.d <= y.n * x.d

RMin(x, y) == IF RLt(y, x) THEN y ELSE x

RMax(x, y) == IF RLt(x, y) THEN y ELSE x

RAbs(x) == [n |-> Abs(x.n), d |-> x.d]

\* the integer nearest to (f + r2 / (2 * d)), a tie going to the even one
NearestEven(f, r2, d) ==
    IF r2 < d THEN f
    ELSE IF r2 > d THEN f + 1
    ELSE IF f % 2 = 0 THEN f ELSE f + 1

\* Python round(x, 1): to the nearest tenth, a tie to the even tenth.
Round1(x) == Q(NearestEven((10 * x.n) \div x.d, 2 * ((10 * x.n) % x.d), x.d), 10)

(***************************************************************************)
(* Optional values                                                         *)
(***************************************************************************)
None == <<>>

Some(v) == <<v>>

IsNone(o) == o = <<>>

Val(o) == o[1]

(***************************************************************************)
(* The clock.  Every datetime.utcnow() of a request reads the instant now, *)
(* and the clock has moved on when the next request starts: two snapshots  *)
(* of one account, taken by two requests, never carry the same instant.    *)
(***************************************************************************)
\* date.today(): the day the clock is in
Today(t) == t \div TicksPerDay

\* (t - since).days for two datetimes
DaysBetween(since, t) == (t - since) \div TicksPerDay

(***************************************************************************)
(* health_scoring.py: HealthFactor, normalize, calculate_health_score      *)
(***************************************************************************)
\* HealthFactor(factor, impact).to_dict(): the impact rounded to one decimal
HealthFactor(factor, impact) == [factor |-> factor, impact |-> Round1(impact)]

\* the scaled value and its complement without the clamp
Clamp01_unclamped(normalized, inverse) ==
    IF inverse THEN RSub(Int2Q(1), normalized) ELSE normalized

\* the clamp with the complement taken when inverse is not set
Clamp01_swapped(normalized, inverse) ==
    IF inverse THEN RMax(Int2Q(0), RMin(Int2Q(1), normalized))
    ELSE RSub(Int2Q(1), RMax(Int2Q(0), RMin(Int2Q(1), normalized)))

\* max(0.0, min(1.0, normalized)), then 1 - normalized if inverse
Clamp01(normalized, inverse) ==
    IF inverse THEN RSub(Int2Q(1), RMax(Int2Q(0), RMin(Int2Q(1), normalized)))
    ELSE RMax(Int2Q(0), RMin(Int2Q(1), normalized))

normalize(value, min_val, max_val, inverse) ==
    IF max_val = min_val THEN Q(1, 2)
    ELSE Clamp01(RDiv(RSub(value, min_val), RSub(max_val, min_val)), inverse)

\* adoption_ratio = min(1.2, active_users / max(1, seats_purchased))
AdoptionRatio(a) ==
    RMin(Q(6, 5), Q(a.active_users, IF a.seats_purchased < 1 THEN 1 ELSE a.seats_purchased))

\* a sub-score taken from the ratio without its scaling by 1.2
adoption_ratio_score_unscaled(a) == RMul(AdoptionRatio(a), Int2Q(20))

adoption_ratio_score(a) ==
    RMul(RMin(Int2Q(1), RDiv(AdoptionRatio(a), Q(6, 5))), Int2Q(20))

\* the adoption factor with 'Strong' only above a ratio of 0.9
AdoptionFactors_above(adoption_ratio, score) ==
    IF RLt(Q(9, 10), adoption_ratio)
    THEN <<HealthFactor("Strong user adoption", score)>>
    ELSE <<HealthFactor("Moderate user adoption", RSub(score, Int2Q(10)))>>

\* the adoption factor with 'Low' up to and including a ratio of 0.3
AdoptionFactors_low_at(adoption_ratio, score) ==
    IF RLe(Q(9, 10), adoption_ratio)
    THEN <<HealthFactor("Strong user adoption", score)>>
    ELSE IF RLe(adoption_ratio, Q(3, 10))
    THEN <<HealthFactor("Low user adoption", RSub(score, Int2Q(20)))>>
    ELSE <<HealthFactor("Moderate user adoption", RSub(score, Int2Q(10)))>>

AdoptionFactors(adoption_ratio, score) ==
    IF RLe(Q(9, 10), adoption_ratio)
    THEN <<HealthFactor("Strong user adoption", score)>>
    ELSE IF RLt(adoption_ratio, Q(3, 10))
    THEN <<HealthFactor("Low user adoption", RSub(score, Int2Q(20)))>>
    ELSE <<HealthFactor("Moderate user adoption", RSub(score, Int2Q(10)))>>

\* 1. Adoption ratio (20 points)
AdoptionPart(a) ==
    [score |-> adoption_ratio_score(a),
     factors |-> AdoptionFactors(AdoptionRatio(a), adoption_ratio_score(a))]

FeatureFactors(feature_x_adoption, score) ==
    IF RLe(Q(7, 10), feature_x_adoption)
    THEN <<HealthFactor("High feature adoption", score)>>
    ELSE IF RLt(feature_x_adoption, Q(3, 10))
    THEN <<HealthFactor("Low feature adoption", RSub(score, Int2Q(10)))>>
    ELSE <<>>

\* 2. Feature X adoption (10 points)
FeaturePart(a) ==
    [score |-> RMul(a.feature_x_adoption, Int2Q(10)),
     factors |-> FeatureFactors(a.feature_x_adoption, RMul(a.feature_x_adoption, Int2Q(10)))]

\* 3. Weekly active % (5 points)
WeeklyPart(a) ==
    [score |-> RMul(a.weekly_active_pct, Int2Q(5)),
     factors |->
        IF RLt(a.weekly_active_pct, Q(3, 10))
        THEN <<HealthFactor("Low weekly engagement",
                            RSub(RMul(a.weekly_active_pct, Int2Q(5)), Int2Q(5)))>>
        ELSE <<>>]

\* 4. Average session time (10 points): the placeholder active_users * 0.5
SessionPart(a) ==
    [score |-> RMul(normalize(Q(a.active_users, 2), Int2Q(0), Int2Q(100), FALSE), Int2Q(10)),
     factors |-> <<>>]

ttv_score(ttv) == RMul(normalize(Int2Q(ttv), Int2Q(0), Int2Q(180), TRUE), Int2Q(10))

\* time-to-value factors with the slow one carrying the sub-score itself
TtvFactors_slow_unshifted(ttv, score) ==
    IF ttv <= 30 THEN <<HealthFactor("Fast time to value", score)>>
    ELSE IF ttv > 90 THEN <<HealthFactor("Slow time to value", score)>>
    ELSE <<>>

TtvFactors(ttv, score) ==
    IF ttv <= 30 THEN <<HealthFactor("Fast time to value", score)>>
    ELSE IF ttv > 90 THEN <<HealthFactor("Slow time to value", RSub(score, Int2Q(10)))>>
    ELSE <<>>

\* 5. Time to value (10 points, inverse)
TtvPart(a) ==
    IF ~IsNone(a.time_to_value_days)
    THEN [score |-> ttv_score(Val(a.time_to_value_days)),
          factors |-> TtvFactors(Val(a.time_to_value_days),
                                 ttv_score(Val(a.time_to_value_days)))]
    ELSE [score |-> Int2Q(5), factors |-> <<>>]

\* a tickets sub-score that rises with the tickets
tickets_score_rising(a) ==
    RMul(normalize(Int2Q(a.tickets_last_30d), Int2Q(0), Int2Q(20), FALSE), Int2Q(8))

tickets_score(a) ==
    RMul(normalize(Int2Q(a.tickets_last_30d), Int2Q(0), Int2Q(20), TRUE), Int2Q(8))

\* 6. Tickets in the last 30 days (8 points, inverse)
TicketsPart(a) ==
    [score |-> tickets_score(a),
     factors |->
        IF a.tickets_last_30d > 10
        THEN <<HealthFactor("High ticket volume", RSub(tickets_score(a), Int2Q(8)))>>
        ELSE IF a.tickets_last_30d = 0
        THEN <<HealthFactor("Zero support tickets", tickets_score(a))>>
        ELSE <<>>]

critical_score(a) ==
    RMul(normalize(Int2Q(a.critical_tickets_90d), Int2Q(0), Int2Q(10), TRUE), Int2Q(8))

\* 7. Critical tickets in 90 days (8 points, inverse)
CriticalPart(a) ==
    [score |-> critical_score(a),
     factors |->
        IF a.critical_tickets_90d > 3
        THEN <<HealthFactor("Multiple critical issues", RSub(critical_score(a), Int2Q(8)))>>
        ELSE <<>>]

sla_score(a) ==
    RMul(normalize(Int2Q(a.sla_breaches_90d), Int2Q(0), Int2Q(5), TRUE), Int2Q(4))

\* 8. SLA breaches in 90 days (4 points, inverse)
SlaPart(a) ==
    [score |-> sla_score(a),
     factors |->
        IF a.sla_breaches_90d > 2
        THEN <<HealthFactor("SLA breaches", RSub(sla_score(a), Int2Q(4)))>>
        ELSE <<>>]

\* nps_normalized * 15 with nps_normalized = (nps + 100) / 200
nps_score(nps) == RMul(Q(nps + 100, 200), Int2Q(15))

\* an NPS term without factors that gives a missing NPS no points
NpsPart_missing_scores_zero(a) ==
    IF ~IsNone(a.nps)
    THEN [score |-> nps_score(Val(a.nps)), factors |-> <<>>]
    ELSE [score |-> Int2Q(0), factors |-> <<>>]

\* 9. NPS (15 points)
NpsPart(a) ==
    IF ~IsNone(a.nps)
    THEN [score |-> nps_score(Val(a.nps)),
          factors |->
             IF Val(a.nps) >= 50
             THEN <<HealthFactor("Promoter NPS", nps_score(Val(a.nps)))>>
             ELSE IF Val(a.nps) < 0
             THEN <<HealthFactor("Detractor NPS", RSub(nps_score(Val(a.nps)), Int2Q(15)))>>
             ELSE <<>>]
    ELSE [score |-> Q(15, 2), factors |-> <<>>]

qbr_score(days_since_qbr) ==
    RMul(normalize(Int2Q(days_since_qbr), Int2Q(0), Int2Q(180), TRUE), Int2Q(5))

\* 10. Days since the last QBR (5 points, inverse)
QbrPart(a, t) ==
    IF ~IsNone(a.qbr_last_date)
    THEN [score |-> qbr_score(Today(t) - Val(a.qbr_last_date)),
          factors |->
             IF Today(t) - Val(a.qbr_last_date) > 120
             THEN <<HealthFactor("Overdue QBR",
                                 RSub(qbr_score(Today(t) - Val(a.qbr_last_date)), Int2Q(5)))>>
             ELSE <<>>]
    ELSE [score |-> Int2Q(0), factors |-> <<HealthFactor("No QBR history", Int2Q(-5))>>]

\* an onboarding term that is extended from the 30th day on
OnboardingPart_from_thirty(a, t) ==
    IF a.onboarding_phase
    THEN IF DaysBetween(a.created_at, t) >= 30
         THEN [score |-> Int2Q(0),
               factors |-> <<HealthFactor("Extended onboarding", Int2Q(-5))>>]
         ELSE [score |-> Int2Q(3), factors |-> <<>>]
    ELSE [score |-> Int2Q(5), factors |-> <<>>]

\* 11. Onboarding phase (5 points)
OnboardingPart(a, t) ==
    IF a.onboarding_phase
    THEN IF DaysBetween(a.created_at, t) > 30
         THEN [score |-> Int2Q(0),
               factors |-> <<HealthFactor("Extended onboarding", Int2Q(-5))>>]
         ELSE [score |-> Int2Q(3), factors |-> <<>>]
    ELSE [score |-> Int2Q(5), factors |-> <<>>]

\* a bonus without its cap at 10
expansion_bonus_uncapped(a) == RMul(Q(a.expansion_oppty_dollar, a.arr), Int2Q(20))

\* min(10, expansion_ratio * 20) with expansion_ratio = expansion_oppty_dollar / arr
expansion_bonus(a) == RMin(Int2Q(10), RMul(Q(a.expansion_oppty_dollar, a.arr), Int2Q(20)))

\* Commercial signal: the expansion opportunity bonus
ExpansionPart(a) ==
    IF a.expansion_oppty_dollar > 0 /\ a.arr > 0
    THEN [score |-> expansion_bonus(a),
          factors |->
             IF RLe(Int2Q(5), expansion_bonus(a))
             THEN <<HealthFactor("Strong expansion opportunity", expansion_bonus(a))>>
             ELSE <<>>]
    ELSE [score |-> Int2Q(0), factors |-> <<>>]

\* a renewal at risk only within 10 days
RenewalAtRisk_ten_days(a, days_to_renewal) ==
    0 <= days_to_renewal /\ days_to_renewal <= 10

\* a renewal at risk strictly inside the 60 days
RenewalAtRisk_exclusive(a, days_to_renewal) ==
    0 < days_to_renewal /\ days_to_renewal < 60 /\ RLt(AdoptionRatio(a), Q(1, 2))

\* 0 <= days_to_renewal <= 60 and adoption_ratio < 0.5
RenewalAtRisk(a, days_to_renewal) ==
    0 <= days_to_renewal /\ days_to_renewal <= 60 /\ RLt(AdoptionRatio(a), Q(1, 2))

\* Commercial signal: renewal within 60 days with weak adoption
RenewalPart(a, t) ==
    IF ~IsNone(a.renewal_date)
    THEN IF RenewalAtRisk(a, Val(a.renewal_date) - Today(t))
         THEN [score |-> Int2Q(-5),
               factors |-> <<HealthFactor("Renewal risk: low adoption", Int2Q(-5))>>]
         ELSE [score |-> Int2Q(0), factors |-> <<>>]
    ELSE [score |-> Int2Q(0), factors |-> <<>>]

\* The eleven base sub-scores and the two commercial adjustments, in the order
\* the code adds them
ScoreParts(a, t) ==
    <<AdoptionPart(a), FeaturePart(a), WeeklyPart(a), SessionPart(a), TtvPart(a),
      TicketsPart(a), CriticalPart(a), SlaPart(a), NpsPart(a), QbrPart(a, t),
      OnboardingPart(a, t), ExpansionPart(a), RenewalPart(a, t)>>

RECURSIVE SumScores(_)
SumScores(parts) ==
    IF parts = <<>> THEN Int2Q(0)
    ELSE RAdd(SumScores(SubSeq(parts, 1, Len(parts) - 1)), parts[Len(parts)].score)

RECURSIVE AllFactors(_)
AllFactors(parts) ==
    IF parts = <<>> THEN <<>>
    ELSE AllFactors(SubSeq(parts, 1, Len(parts) - 1)) \o parts[Len(parts)].factors

\* final_score = max(0, min(110, final_score))
ClampScore(raw) == RMax(Int2Q(0), RMin(Int2Q(110), raw))

\* the labels with the thresholds taken as exclusive lower bounds
RiskLabel_exclusive(final_score) ==
    IF RLt(Int2Q(75), final_score) THEN "Green"
    ELSE IF RLt(Int2Q(50), final_score) THEN "Amber"
    ELSE "Red"

RiskLabel(final_score) ==
    IF RLe(Int2Q(75), final_score) THEN "Green"
    ELSE IF RLe(Int2Q(50), final_score) THEN "Amber"
    ELSE "Red"

\* f placed behind every factor of sorted whose |impact| is at least its own
RECURSIVE InsertFactor(_, _)
InsertFactor(f, sorted) ==
    IF sorted = <<>> THEN <<f>>
    ELSE IF RLt(RAbs(sorted[1].impact), RAbs(f.impact))
    THEN <<f>> \o sorted
    ELSE <<sorted[1]>> \o InsertFactor(f, Tail(sorted))

\* factors.sort(key=lambda f: abs(f.impact), reverse=True): a stable sort
RECURSIVE SortFactors(_)
SortFactors(fs) ==
    IF fs = <<>> THEN <<>>
    ELSE InsertFactor(fs[Len(fs)], SortFactors(SubSeq(fs, 1, Len(fs) - 1)))

\* a cut that keeps the last ten of the sorted factors
TopFactors_tail(fs) == SubSeq(fs, IF Len(fs) < 10 THEN 1 ELSE Len(fs) - 9, Len(fs))

\* factors[:10]
TopFactors(fs) == SubSeq(fs, 1, IF Len(fs) < 10 THEN Len(fs) ELSE 10)

\* base_score + commercial_bonus, before the clamp
RawScore(parts) == SumScores(parts)

\* what calculate_health_score returns: (final_score, top_factors, risk_label)
HealthResult(final_score, top_factors) ==
    [score |-> final_score, top_factors |-> top_factors,
     risk_label |-> RiskLabel(final_score)]

\* calculate_health_score(account) with the clock reading t
calculate_health_score(a, t) ==
    HealthResult(ClampScore(RawScore(ScoreParts(a, t))),
                 TopFactors(SortFactors(AllFactors(ScoreParts(a, t)))))

(***************************************************************************)
(* The database: tables accounts, health_snapshots, account_metrics_daily  *)
(* (models.py).  A db value is [accounts, snapshots, metrics]; a request   *)
(* works on its session's view of it and a commit publishes that view.     *)
(***************************************************************************)
\* a database emptied of its accounts and metrics with the snapshots left in
DbWithoutAccounts == [accounts |-> <<>>, snapshots |-> snapshots, metrics |-> <<>>]

\* the three tables with no rows
EmptyDb == [accounts |-> <<>>, snapshots |-> <<>>, metrics |-> <<>>]

\* SegmentEnum
Segments == {"SMB", "Mid-Market", "Enterprise"}

Ids(db) == DOMAIN db.accounts

Max(S) == CHOOSE x \in S : \A y \in S : y <= x

Min(S) == CHOOSE x \in S : \A y \in S : x <= y

\* the primary key the database gives the next inserted row
NextAccountId(db) == IF Ids(db) = {} THEN 1 ELSE Max(Ids(db)) + 1

NextSnapshotId(db) ==
    IF db.snapshots = <<>> THEN 1
    ELSE Max({db.snapshots[i].id : i \in 1..Len(db.snapshots)}) + 1

\* models.HealthSnapshot(account_id, calculated_at, score, risk_label, top_factors)
\* for the result r of calculate_health_score, under its primary key
HealthSnapshot(snapshot_id, id, t, r) ==
    [id |-> snapshot_id, account_id |-> id, calculated_at |-> t,
     score |-> r.score, risk_label |-> r.risk_label, top_factors |-> r.top_factors]

\* a save that adds the snapshot row and leaves the account's live fields alone
SnapshotWrites_row_only(db, id, snapshot) ==
    [db EXCEPT !.snapshots = Append(@, snapshot)]

\* what save_health_snapshot adds to the session: the account with its live
\* health_score and health_bucket set, and the new snapshot row
SnapshotWrites(db, id, snapshot) ==
    [db EXCEPT !.accounts[id].health_score = snapshot.score,
               !.accounts[id].health_bucket = Some(snapshot.risk_label),
               !.snapshots = Append(@, snapshot)]

\* a failed save whose account update stays behind
save_health_snapshot_half(db, id, t) ==
    [db EXCEPT !.accounts[id].health_score = calculate_health_score(db.accounts[id], t).score,
               !.accounts[id].health_bucket =
                   Some(calculate_health_score(db.accounts[id], t).risk_label)]

\* a save that keeps one snapshot per account, replacing the earlier one
save_health_snapshot_replacing(db, id, t) ==
    SnapshotWrites([db EXCEPT !.snapshots = SelectSeq(@, LAMBDA s : s.account_id # id)], id,
                   HealthSnapshot(NextSnapshotId(db), id, t,
                                  calculate_health_score(db.accounts[id], t)))

\* a save that scores the first account of the table in place of its own
save_health_snapshot_first_row(db, id, t) ==
    SnapshotWrites(db, id,
                   HealthSnapshot(NextSnapshotId(db), id, t,
                                  calculate_health_score(db.accounts[Min(Ids(db))], t)))

\* save_health_snapshot's writes when session.commit() fails: the transaction rolls back
save_health_snapshot_failed(db, id, t) == db

\* save_health_snapshot's writes when session.commit() succeeds
save_health_snapshot_committed(db, id, t) ==
    SnapshotWrites(db, id,
                   HealthSnapshot(NextSnapshotId(db), id, t,
                                  calculate_health_score(db.accounts[id], t)))

\* save_health_snapshot(session, account) at clock reading t; commit_ok: whether
\* session.commit() succeeds.  The database after the call.
save_health_snapshot(db, id, t, commit_ok) ==
    IF commit_ok THEN save_health_snapshot_committed(db, id, t)
    ELSE save_health_snapshot_failed(db, id, t)

\* recompute_all_health_scores' loop over the accounts still to do; saved is the
\* database after save_health_snapshot of the first of them.  An exception of
\* save_health_snapshot leaves the loop and the function.
RECURSIVE RecomputeLoop(_, _, _, _, _)
\* a loop that forgets to count
RecomputeNext_uncounted(saved, todo, t, failing, count) ==
    IF Head(todo) \in failing
    THEN [db |-> saved, count |-> count, raised |-> TRUE]
    ELSE RecomputeLoop(saved, Tail(todo), t, failing, count)

RecomputeNext(saved, todo, t, failing, count) ==
    IF Head(todo) \in failing
    THEN [db |-> saved, count |-> count, raised |-> TRUE]
    ELSE RecomputeLoop(saved, Tail(todo), t, failing, count + 1)

RecomputeLoop(db, todo, t, failing, count) ==
    IF todo = <<>> THEN [db |-> db, count |-> count, raised |-> FALSE]
    ELSE RecomputeNext(save_health_snapshot(db, Head(todo), t, Head(todo) \notin failing),
                       todo, t, failing, count)

\* recompute_all_health_scores(session) at clock reading t: order is the order
\* select(Account) returns the rows in, failing the accounts whose commit fails
recompute_all_health_scores(db, order, t, failing) == RecomputeLoop(db, order, t, failing, 0)

\* the orders in which a SELECT without ORDER BY may return the rows S
Orders(S) == {o \in [1..Cardinality(S) -> S] : \A i, j \in DOMAIN o : i # j => o[i] # o[j]}

\* the rows of account id, ORDER BY calculated_at DESC (rows of one instant keep
\* their insertion order)
\* the rows in ascending order
RECURSIVE InsertByTimeAsc(_, _)
InsertByTimeAsc(s, sorted) ==
    IF sorted = <<>> THEN <<s>>
    ELSE IF s.calculated_at < sorted[1].calculated_at THEN <<s>> \o sorted
    ELSE <<sorted[1]>> \o InsertByTimeAsc(s, Tail(sorted))

RECURSIVE InsertByTimeDesc(_, _)
InsertByTimeDesc(s, sorted) ==
    IF sorted = <<>> THEN <<s>>
    ELSE IF sorted[1].calculated_at < s.calculated_at THEN <<s>> \o sorted
    ELSE <<sorted[1]>> \o InsertByTimeDesc(s, Tail(sorted))

RECURSIVE SnapshotsDesc(_, _)
SnapshotsDesc(snaps, id) ==
    IF snaps = <<>> THEN <<>>
    ELSE LET rest == SnapshotsDesc(SubSeq(snaps, 1, Len(snaps) - 1), id)
             s == snaps[Len(snaps)]
         IN  IF s.account_id = id THEN InsertByTimeDesc(s, rest) ELSE rest

\* .limit(n)
Limit(rows, n) == SubSeq(rows, 1, IF Len(rows) < n THEN Len(rows) ELSE n)

\* get_health_history's statement
health_history(db, id, limit) == Limit(SnapshotsDesc(db.snapshots, id), limit)

(***************************************************************************)
(* main.py: ingest_csv                                                     *)
(***************************************************************************)
\* two of generate_mock_data's company names
Names == {"Acme Corp", "TechStart Inc"}

\* A CSV row: the healthy account of the concrete scenario
HealthyRow(name) ==
    [name |-> name, arr |-> 100000, segment |-> "SMB", renewal_date |-> None,
     active_users |-> 90, seats_purchased |-> 100, feature_x_adoption |-> Q(4, 5),
     weekly_active_pct |-> Q(7, 10), time_to_value_days |-> None,
     tickets_last_30d |-> 0, critical_tickets_90d |-> 0, sla_breaches_90d |-> 0,
     nps |-> Some(60), qbr_last_date |-> Some(0), onboarding_phase |-> FALSE,
     expansion_oppty_dollar |-> 0, date |-> Some(0)]

\* A CSV row: an at-risk account, the one of the concrete scenario with low
\* feature adoption and a fast time to value
AtRiskRow(name) ==
    [name |-> name, arr |-> 200000, segment |-> "Enterprise", renewal_date |-> Some(20),
     active_users |-> 30, seats_purchased |-> 100, feature_x_adoption |-> Q(1, 5),
     weekly_active_pct |-> Q(7, 10), time_to_value_days |-> Some(30),
     tickets_last_30d |-> 15, critical_tickets_90d |-> 4, sla_breaches_90d |-> 0,
     nps |-> Some(-20), qbr_last_date |-> Some(0), onboarding_phase |-> FALSE,
     expansion_oppty_dollar |-> 0, date |-> None]

\* A CSV row whose segment is no SegmentEnum value
BadRow(name) == [AtRiskRow(name) EXCEPT !.segment = "Unknown", !.arr = 50000]

\* The rows a CSV file is made of
CsvRows ==
    {HealthyRow("Acme Corp"), AtRiskRow("Acme Corp"), BadRow("Acme Corp"),
     HealthyRow("TechStart Inc")}

\* models.Account(...) as ingest_csv builds it from the first row of a new name
NewAccount(row, t) ==
    [name |-> row.name, arr |-> row.arr, segment |-> row.segment,
     renewal_date |-> row.renewal_date, active_users |-> row.active_users,
     seats_purchased |-> row.seats_purchased,
     feature_x_adoption |-> row.feature_x_adoption,
     weekly_active_pct |-> row.weekly_active_pct,
     time_to_value_days |-> row.time_to_value_days,
     tickets_last_30d |-> row.tickets_last_30d,
     critical_tickets_90d |-> row.critical_tickets_90d,
     sla_breaches_90d |-> row.sla_breaches_90d, nps |-> row.nps,
     qbr_last_date |-> row.qbr_last_date, onboarding_phase |-> row.onboarding_phase,
     expansion_oppty_dollar |-> row.expansion_oppty_dollar,
     health_score |-> Int2Q(0), health_bucket |-> None,
     created_at |-> t, updated_at |-> t]

\* pd.notna(new): an empty CSV cell keeps the stored value
IfGiven(new, old) == IF IsNone(new) THEN old ELSE new

\* ingest_csv's update of an existing account from the first row of its name
UpdatedAccount(acc, row, t) ==
    [acc EXCEPT !.arr = row.arr, !.segment = row.segment,
                !.renewal_date = IfGiven(row.renewal_date, @),
                !.active_users = row.active_users,
                !.seats_purchased = row.seats_purchased,
                !.feature_x_adoption = row.feature_x_adoption,
                !.weekly_active_pct = row.weekly_active_pct,
                !.time_to_value_days = IfGiven(row.time_to_value_days, @),
                !.tickets_last_30d = row.tickets_last_30d,
                !.critical_tickets_90d = row.critical_tickets_90d,
                !.sla_breaches_90d = row.sla_breaches_90d,
                !.nps = IfGiven(row.nps, @),
                !.qbr_last_date = IfGiven(row.qbr_last_date, @),
                !.onboarding_phase = row.onboarding_phase,
                !.expansion_oppty_dollar = row.expansion_oppty_dollar,
                !.updated_at = t]

\* df['name'].unique(): the names in the order of their first row
RECURSIVE UniqueNames(_)
UniqueNames(rows) ==
    IF rows = <<>> THEN <<>>
    ELSE LET before == UniqueNames(SubSeq(rows, 1, Len(rows) - 1))
             n == rows[Len(rows)].name
         IN  IF \E i \in 1..Len(before) : before[i] = n THEN before ELSE Append(before, n)

RowHasName(row, name) == row.name = name

\* df[df['name'] == account_name]
RECURSIVE RowsOf(_, _)
RowsOf(rows, name) ==
    IF rows = <<>> THEN <<>>
    ELSE IF RowHasName(rows[1], name) THEN <<rows[1]>> \o RowsOf(Tail(rows), name)
    ELSE RowsOf(Tail(rows), name)

\* a lookup by name that finds nothing
AccountsNamed_none(db, name) == {}

\* select(Account).where(Account.name == name): the ids found
AccountsNamed(db, name) == {id \in Ids(db) : db.accounts[id].name = name}

MetricExists(db, id, date) ==
    \E i \in 1..Len(db.metrics) : db.metrics[i].account_id = id /\ db.metrics[i].date = date

\* ingest_csv's daily-metrics loop over the rows of one account: a row whose
\* date cell is empty (or a file with no date column) adds nothing.
\* [db: the session's view, created: metrics_created's increase]
RECURSIVE AddMetrics(_, _, _, _)
AddMetrics(db, id, rows, created) ==
    IF rows = <<>> THEN [db |-> db, created |-> created]
    ELSE IF IsNone(rows[1].date) \/ MetricExists(db, id, Val(rows[1].date))
    THEN AddMetrics(db, id, Tail(rows), created)
    ELSE AddMetrics([db EXCEPT !.metrics =
                        Append(@, [account_id |-> id, date |-> Val(rows[1].date)])],
                    id, Tail(rows), created + 1)

\* the account ingest_csv works on: the first one found, or the new row's id
AccountId(db, found) == IF found = {} THEN NextAccountId(db) ELSE Min(found)

\* ingest_csv's get-or-create, up to its db.commit()
GetOrCreate(db, first_row, found, t) ==
    IF found = {}
    THEN [db EXCEPT !.accounts = @ @@ (NextAccountId(db) :> NewAccount(first_row, t))]
    ELSE [db EXCEPT !.accounts[Min(found)] = UpdatedAccount(@, first_row, t)]

\* SegmentEnum(first_row['segment']) raises: nothing of a new account exists yet;
\* an existing one already had account.arr assigned in the session, which the
\* next commit of the request writes
IngestRejected(st, first_row, found) ==
    [st EXCEPT !.errors = Append(@, first_row.name),
               !.db = IF found = {} THEN @
                      ELSE [@ EXCEPT !.accounts[Min(found)].arr = first_row.arr]]

\* the end of one pass: account is the database after the account's commit, m
\* what the metrics loop added to it.  A failing commit in save_health_snapshot
\* rolls the metrics and the snapshot back and is recorded as an error.
IngestSaved(st, name, found, commit_ok, account, m) ==
    [db |-> IF commit_ok
            THEN save_health_snapshot(m.db, AccountId(st.db, found), st.t, TRUE)
            ELSE account,
     t |-> st.t,
     accounts_created |-> st.accounts_created + (IF found = {} THEN 1 ELSE 0),
     accounts_updated |-> st.accounts_updated + (IF found = {} THEN 0 ELSE 1),
     metrics_created |-> st.metrics_created + m.created,
     errors |-> IF commit_ok THEN st.errors ELSE Append(st.errors, name)]

IngestMetrics(st, account_rows, found, commit_ok, account) ==
    IngestSaved(st, account_rows[1].name, found, commit_ok, account,
                AddMetrics(account, AccountId(st.db, found), account_rows, 0))

\* One pass of ingest_csv's loop body, for one account name.  st holds the
\* database as the session sees it, the clock reading and the counters.
IngestAccount(st, account_rows, found, commit_ok) ==
    IF account_rows[1].segment \notin Segments
    THEN IngestRejected(st, account_rows[1], found)
    ELSE IngestMetrics(st, account_rows, found, commit_ok,
                       GetOrCreate(st.db, account_rows[1], found, st.t))

RECURSIVE IngestLoop(_, _, _, _)
IngestLoop(st, rows, names, failing) ==
    IF names = <<>> THEN st
    ELSE IngestLoop(IngestAccount(st, RowsOf(rows, Head(names)),
                                  AccountsNamed(st.db, Head(names)),
                                  Head(names) \notin failing),
                    rows, Tail(names), failing)

\* ingest_csv(file) on database db at clock reading t; rows: the rows of the file,
\* failing: the names whose save_health_snapshot commit fails.  The final
\* db.commit() writes what the session still holds.
ingest_csv(db, rows, t, failing) ==
    IngestLoop([db |-> db, t |-> t, accounts_created |-> 0, accounts_updated |-> 0,
                metrics_created |-> 0, errors |-> <<>>],
               rows, UniqueNames(rows), failing)

(***************************************************************************)
(* main.py: generate_mock_data                                             *)
(***************************************************************************)
\* range(30): the days of daily metrics generated per account
MockMetricDays == 30

\* random.sample(companies, min(count, len(companies))): the lists it may return
RandomSample(companies, count) ==
    {selected \in [1..Min({count, Cardinality(companies)}) -> companies] :
        \A i, j \in DOMAIN selected : i # j => selected[i] # selected[j]}

\* What random draws for one mock account, within the ranges of its profile
MockDraws ==
    {[expansion_oppty |-> 0, time_to_value_days |-> None, onboarding |-> FALSE],
     [expansion_oppty |-> 50000, time_to_value_days |-> Some(30), onboarding |-> TRUE]}

\* models.Account(...) for the idx-th selected company: health_profile = idx % 5
\* (0, 1 healthy; 2, 3 moderate; 4 at risk), one value from each random range
MockAccount(name, idx, draw, t) ==
    LET health_profile == idx % 5
        base == [name |-> name, arr |-> 100000, segment |-> "SMB",
                 renewal_date |-> Some(Today(t) + 30), seats_purchased |-> 100,
                 time_to_value_days |-> draw.time_to_value_days,
                 health_score |-> Int2Q(0), health_bucket |-> None,
                 created_at |-> t, updated_at |-> t]
    IN  IF health_profile < 2
        THEN base @@ [active_users |-> 90, feature_x_adoption |-> Q(4, 5),
                      weekly_active_pct |-> Q(7, 10), tickets_last_30d |-> 0,
                      critical_tickets_90d |-> 0, sla_breaches_90d |-> 0,
                      nps |-> Some(60), expansion_oppty_dollar |-> draw.expansion_oppty,
                      qbr_last_date |-> Some(Today(t)), onboarding_phase |-> FALSE]
        ELSE IF health_profile < 4
        THEN base @@ [active_users |-> 60, feature_x_adoption |-> Q(1, 2),
                      weekly_active_pct |-> Q(1, 2), tickets_last_30d |-> 5,
                      critical_tickets_90d |-> 2, sla_breaches_90d |-> 0,
                      nps |-> Some(20), expansion_oppty_dollar |-> 0,
                      qbr_last_date |-> Some(Today(t) - 90), onboarding_phase |-> FALSE]
        ELSE base @@ [active_users |-> 30, feature_x_adoption |-> Q(1, 5),
                      weekly_active_pct |-> Q(1, 5), tickets_last_30d |-> 15,
                      critical_tickets_90d |-> 4, sla_breaches_90d |-> 3,
                      nps |-> Some(-20), expansion_oppty_dollar |-> 0,
                      qbr_last_date |-> Some(Today(t) - 150),
                      onboarding_phase |-> draw.onboarding]

\* the 30 daily metrics of one mock account: today and the 29 days before
MockMetrics(id, t) ==
    [k \in 1..MockMetricDays |-> [account_id |-> id, date |-> Today(t) - (k - 1)]]

\* the end of one pass: account is the database after the account's commit
MockSaved(st, name, id, commit_ok, account) ==
    [db |-> IF commit_ok
            THEN save_health_snapshot([account EXCEPT !.metrics = @ \o MockMetrics(id, st.t)],
                                      id, st.t, TRUE)
            ELSE account,
     t |-> st.t,
     accounts_created |-> st.accounts_created + 1,
     metrics_created |-> st.metrics_created + MockMetricDays,
     errors |-> IF commit_ok THEN st.errors ELSE Append(st.errors, name)]

\* One pass of generate_mock_data's loop body, for the idx-th selected company
MockOne(st, name, idx, draw, commit_ok) ==
    MockSaved(st, name, NextAccountId(st.db), commit_ok,
              [st.db EXCEPT !.accounts =
                  @ @@ (NextAccountId(st.db) :> MockAccount(name, idx, draw, st.t))])

RECURSIVE MockLoop(_, _, _, _, _)
MockLoop(st, selected, idx, draws, failing) ==
    IF idx >= Len(selected) THEN st
    ELSE MockLoop(MockOne(st, selected[idx + 1], idx, draws[idx + 1],
                          selected[idx + 1] \notin failing),
                  selected, idx + 1, draws, failing)

\* generate_mock_data: all rows deleted, then one account, its metrics and its
\* snapshot per selected company.  selected: what random.sample returned.
generate_mock_data(selected, draws, t, failing) ==
    MockLoop([db |-> EmptyDb, t |-> t, accounts_created |-> 0, metrics_created |-> 0,
              errors |-> <<>>],
             selected, 0, draws, failing)

(***************************************************************************)
(* playbooks.py: PLAYBOOKS_LIBRARY, recommend_playbooks; main.py: the risk *)
(* factors recommend_actions and generate_account_insights read from the   *)
(* latest snapshot                                                         *)
(***************************************************************************)
\* str.lower() of one character
LowerChar(c) ==
    CASE c = "A" -> "a" [] c = "B" -> "b" [] c = "C" -> "c" [] c = "D" -> "d"
      [] c = "E" -> "e" [] c = "F" -> "f" [] c = "G" -> "g" [] c = "H" -> "h"
      [] c = "I" -> "i" [] c = "J" -> "j" [] c = "K" -> "k" [] c = "L" -> "l"
      [] c = "M" -> "m" [] c = "N" -> "n" [] c = "O" -> "o" [] c = "P" -> "p"
      [] c = "Q" -> "q" [] c = "R" -> "r" [] c = "S" -> "s" [] c = "T" -> "t"
      [] c = "U" -> "u" [] c = "V" -> "v" [] c = "W" -> "w" [] c = "X" -> "x"
      [] c = "Y" -> "y" [] c = "Z" -> "z" [] OTHER -> c

\* str.lower()
RECURSIVE lower(_)
lower(s) ==
    IF Len(s) = 0 THEN ""
    ELSE LowerChar(SubSeq(s, 1, 1)) \o lower(SubSeq(s, 2, Len(s)))

\* needle in hay, for two strings
Contains(needle, hay) ==
    \E i \in 1..(Len(hay) - Len(needle) + 1) : SubSeq(hay, i, i + Len(needle) - 1) = needle

\* PLAYBOOKS_LIBRARY: id, priority and risk_factors of each playbook
PLAYBOOKS_LIBRARY ==
    <<[id |-> 1, priority |-> "High",
       risk_factors |-> <<"Low user engagement", "Critical health score",
                          "Below target health score">>],
      [id |-> 2, priority |-> "High",
       risk_factors |-> <<"Low feature adoption", "Low user engagement">>],
      [id |-> 3, priority |-> "High",
       risk_factors |-> <<"High support ticket volume", "Critical health score">>],
      [id |-> 4, priority |-> "Medium",
       risk_factors |-> <<"Low feature adoption", "High support ticket volume",
                          "Infrequent logins">>],
      [id |-> 5, priority |-> "Medium",
       risk_factors |-> <<"Below target health score", "Low user engagement">>],
      [id |-> 6, priority |-> "Medium",
       risk_factors |-> <<"Low user engagement", "Infrequent logins">>],
      [id |-> 7, priority |-> "High",
       risk_factors |-> <<"Negative NPS score", "Critical health score">>],
      [id |-> 8, priority |-> "Medium",
       risk_factors |-> <<"Low feature adoption", "Below target health score">>],
      [id |-> 9, priority |-> "High",
       risk_factors |-> <<"Critical health score", "Negative NPS score",
                          "Low user engagement">>],
      [id |-> 10, priority |-> "Low",
       risk_factors |-> <<"Low feature adoption", "Below target health score">>]>>

\* priority_boost.get(priority, 0)
priority_boost(priority) ==
    IF priority = "High" THEN Q(1, 5) ELSE IF priority = "Medium" THEN Q(1, 10) ELSE Int2Q(0)

\* Python round(x, 2): to the nearest hundredth, a tie to the even hundredth
Round2(x) == Q(NearestEven((100 * x.n) \div x.d, 2 * ((100 * x.n) % x.d), x.d), 100)

\* any(prf.lower() in rf.lower() for prf in playbook_data["risk_factors"])
MatchesPlaybook(rf, playbook_data) ==
    \E k \in 1..Len(playbook_data.risk_factors) :
        Contains(lower(playbook_data.risk_factors[k]), lower(rf))

\* the labels calculate_health_score gives its factors
FactorNames ==
    {"Strong user adoption", "Low user adoption", "Moderate user adoption",
     "High feature adoption", "Low feature adoption", "Low weekly engagement",
     "Fast time to value", "Slow time to value", "High ticket volume",
     "Zero support tickets", "Multiple critical issues", "SLA breaches",
     "Promoter NPS", "Detractor NPS", "Overdue QBR", "No QBR history",
     "Extended onboarding", "Strong expansion opportunity", "Renewal risk: low adoption"}

\* the risk_factors a caller of POST /actions/recommend may give in the request
RequestRiskFactors == {<<>>, <<"High support ticket volume", "Low feature adoption usage">>}

\* every string that reaches recommend_playbooks as a risk factor
RiskFactorStrings ==
    FactorNames \cup UNION {{given[i] : i \in 1..Len(given)} : given \in RequestRiskFactors}

\* per playbook, the risk factor strings that match it (the match of every
\* string worked out once)
MatchingStrings ==
    [n \in 1..Len(PLAYBOOKS_LIBRARY) |->
        {rf \in RiskFactorStrings : MatchesPlaybook(rf, PLAYBOOKS_LIBRARY[n])}]

\* matching_factors of the n-th playbook
matching_factors(risk_factors, n) ==
    SelectSeq(risk_factors, LAMBDA rf : rf \in MatchingStrings[n])

\* the PlaybookRecommendation of one playbook with its matching factors
PlaybookRecommendation(playbook_data, matching, risk_factors) ==
    [playbook |-> playbook_data.id,
     relevance_score |->
         Round2(RMin(Int2Q(1), RAdd(Q(Len(matching), Len(risk_factors)),
                                    priority_boost(playbook_data.priority)))),
     matching_risk_factors |-> matching]

\* r placed behind every recommendation whose relevance is at least its own
RECURSIVE InsertByRelevance(_, _)
InsertByRelevance(r, sorted) ==
    IF sorted = <<>> THEN <<r>>
    ELSE IF RLt(sorted[1].relevance_score, r.relevance_score) THEN <<r>> \o sorted
    ELSE <<sorted[1]>> \o InsertByRelevance(r, Tail(sorted))

\* the loop over the first n playbooks and the stable sort by relevance_score
RECURSIVE Recommendations(_, _)
Recommendations(risk_factors, n) ==
    IF n = 0 THEN <<>>
    ELSE IF matching_factors(risk_factors, n) = <<>>
    THEN Recommendations(risk_factors, n - 1)
    ELSE InsertByRelevance(
             PlaybookRecommendation(PLAYBOOKS_LIBRARY[n], matching_factors(risk_factors, n),
                                    risk_factors),
             Recommendations(risk_factors, n - 1))

\* recommend_playbooks(risk_factors, top_n=5)
recommend_playbooks(risk_factors) ==
    Limit(Recommendations(risk_factors, Len(PLAYBOOKS_LIBRARY)), 5)

\* the labels of the factors with a positive impact
RECURSIVE PositiveFactors(_)
PositiveFactors(factors_json) ==
    IF factors_json = <<>> THEN <<>>
    ELSE (IF factors_json[1].impact.n > 0 THEN <<factors_json[1].factor>> ELSE <<>>)
             \o PositiveFactors(Tail(factors_json))

\* [f['factor'] for f in factors_json if f['impact'] < 0]
RECURSIVE NegativeFactors(_)
NegativeFactors(factors_json) ==
    IF factors_json = <<>> THEN <<>>
    ELSE (IF factors_json[1].impact.n < 0 THEN <<factors_json[1].factor>> ELSE <<>>)
             \o NegativeFactors(Tail(factors_json))

\* risk_factors as both handlers read them from what the statement
\* select ... order_by(calculated_at.desc()).limit(1) returned
RiskFactorsOf(latest_snapshot) ==
    IF latest_snapshot = <<>> THEN <<>>
    ELSE NegativeFactors(latest_snapshot[1].top_factors)

\* the risk factors of account id's latest snapshot
risk_factors_of_account(db, id) == RiskFactorsOf(health_history(db, id, 1))

(***************************************************************************)
(* The service: each request handler runs to its end before the next       *)
(* (one worker process).                                                   *)
(***************************************************************************)
MaxCsvRows == 2
MaxMockCount == 3
MaxAccountId == 2

\* Query(30, ge=1, le=365): the default limit of the health-history query
DefaultLimit == 30

HistoryLimits == {1, DefaultLimit}

Db == [accounts |-> accounts, snapshots |-> snapshots, metrics |-> metrics]

CsvFiles == UNION {[1..n -> CsvRows] : n \in 1..MaxCsvRows}

\* the names of a file that reach save_health_snapshot
SavedNames(rows) ==
    {rows[i].name : i \in {j \in 1..Len(rows) : RowsOf(rows, rows[j].name)[1].segment \in Segments}}

Idle == [pc |-> "idle"]

Workers == {"w1", "w2"}

NoSubject == NewAccount(HealthyRow("Acme Corp"), 0)

\* POST /ingest/csv
IngestCsv ==
    \E file \in CsvFiles : \E failing \in SUBSET SavedNames(file) :
        /\ now < MaxTime
        /\ \E st \in {ingest_csv(Db, file, now, failing)} :
            /\ accounts' = st.db.accounts
            /\ snapshots' = st.db.snapshots
            /\ metrics' = st.db.metrics
            /\ last' = [op |-> "ingest", file |-> file, status |-> 200,
                        accounts_created |-> st.accounts_created,
                        accounts_updated |-> st.accounts_updated,
                        metrics_created |-> st.metrics_created, errors |-> st.errors]
            /\ now' = now + 1
            /\ UNCHANGED <<sessions, subject, result>>

\* POST /ingest/generate-mock?count=
GenerateMockData ==
    \E count \in 1..MaxMockCount : \E selected \in RandomSample(Names, count) :
    \E draws \in [1..Len(selected) -> MockDraws] :
    \E failing \in SUBSET {selected[i] : i \in 1..Len(selected)} :
        /\ now < MaxTime
        /\ \E st \in {generate_mock_data(selected, draws, now, failing)} :
            /\ accounts' = st.db.accounts
            /\ snapshots' = st.db.snapshots
            /\ metrics' = st.db.metrics
            /\ last' = [op |-> "mock", count |-> count, status |-> 200,
                        accounts_created |-> st.accounts_created,
                        metrics_created |-> st.metrics_created, errors |-> st.errors]
            /\ now' = now + 1
            /\ UNCHANGED <<sessions, subject, result>>

\* POST /health/recompute
RecomputeHealth ==
    \E order \in Orders(Ids(Db)) : \E failing \in SUBSET Ids(Db) :
        /\ now < MaxTime
        /\ \E r \in {recompute_all_health_scores(Db, order, now, failing)} :
            /\ accounts' = r.db.accounts
            /\ snapshots' = r.db.snapshots
            /\ metrics' = r.db.metrics
            /\ last' = IF r.raised
                       THEN [op |-> "recompute", status |-> 500]
                       ELSE [op |-> "recompute", status |-> 200, accounts_updated |-> r.count,
                             snapshots_created |-> r.count]
            /\ now' = now + 1
            /\ UNCHANGED <<sessions, subject, result>>

\* GET /accounts/{account_id}/health-history?limit=
GetHealthHistory ==
    \E id \in 1..MaxAccountId : \E limit \in HistoryLimits :
        /\ last' = IF id \notin Ids(Db)
                   THEN [op |-> "history", account_id |-> id, limit |-> limit, status |-> 404]
                   ELSE [op |-> "history", account_id |-> id, limit |-> limit, status |-> 200,
                         body |-> health_history(Db, id, limit)]
        /\ UNCHANGED <<accounts, snapshots, metrics, now, sessions, subject, result>>

\* the response of recommend_actions for the risk factors it settled on
RecommendResponse(account_id, risk_factors) ==
    [op |-> "recommend", account_id |-> account_id, status |-> 200,
     risk_factors |-> risk_factors, recommendations |-> recommend_playbooks(risk_factors)]

\* POST /actions/recommend, with account_id or with risk_factors
RecommendActions ==
    \E account_id \in {None} \cup {Some(id) : id \in 1..MaxAccountId} :
    \E given \in RequestRiskFactors :
        /\ last' = IF IsNone(account_id) THEN RecommendResponse(account_id, given)
                   ELSE IF Val(account_id) \notin Ids(Db)
                   THEN [op |-> "recommend", account_id |-> account_id, status |-> 404]
                   ELSE RecommendResponse(account_id,
                                          risk_factors_of_account(Db, Val(account_id)))
        /\ UNCHANGED <<accounts, snapshots, metrics, now, sessions, subject, result>>

\* POST /insights/account/{account_id}: the risk factors handed to
\* ai_service.generate_account_insight
GenerateAccountInsights ==
    \E id \in 1..MaxAccountId :
        /\ last' = IF id \notin Ids(Db)
                   THEN [op |-> "insights", account_id |-> Some(id), status |-> 404]
                   ELSE [op |-> "insights", account_id |-> Some(id), status |-> 200,
                         risk_factors |-> risk_factors_of_account(Db, id)]
        /\ UNCHANGED <<accounts, snapshots, metrics, now, sessions, subject, result>>

\* time passes
ClockTick ==
    /\ now < MaxTime
    /\ now' = now + 1
    /\ last' = [op |-> "tick"]
    /\ UNCHANGED <<accounts, snapshots, metrics, sessions, subject, result>>

Init ==
    /\ accounts = <<>>
    /\ snapshots = <<>>
    /\ metrics = <<>>
    /\ now = 0
    /\ last = [op |-> "init"]
    /\ sessions = [w \in Workers |-> Idle]
    /\ subject = NoSubject
    /\ result = None

Next ==
    \/ IngestCsv
    \/ GenerateMockData
    \/ RecomputeHealth
    \/ GetHealthHistory
    \/ RecommendActions
    \/ GenerateAccountInsights
    \/ ClockTick

Spec == Init /\ [][Next]_vars

(***************************************************************************)
(* The scoring function on its own: calculate_health_score applied to      *)
(* accounts drawn from the field values below, at the clock reading 0.     *)
(***************************************************************************)
\* a created_at more than 30 days before the clock reading 0
LongAgo == (0 - 31) * TicksPerDay

\* a created_at exactly 30 days before the clock reading 0
MonthAgo == (0 - 30) * TicksPerDay

Subjects ==
    [name : {"Acme Corp"}, arr : {100000}, segment : {"SMB"},
     renewal_date : {None, Some(20)},
     active_users : {0, 30, 90, 240}, seats_purchased : {100},
     feature_x_adoption : {Q(0, 1), Q(1, 2), Q(1, 1)},
     weekly_active_pct : {Q(0, 1), Q(1, 1)},
     time_to_value_days : {None, Some(0), Some(180)},
     tickets_last_30d : {0, 20}, critical_tickets_90d : {0, 10},
     sla_breaches_90d : {0, 5},
     nps : {None, Some(0 - 100), Some(100)},
     qbr_last_date : {None, Some(0)},
     onboarding_phase : BOOLEAN,
     expansion_oppty_dollar : {0, 50000},
     created_at : {0, LongAgo}]

\* score_account(subject)
ScoreAccount ==
    /\ result = None
    /\ result' = Some(calculate_health_score(subject, now))
    /\ UNCHANGED <<accounts, snapshots, metrics, now, last, sessions, subject>>

InitScore ==
    /\ accounts = <<>>
    /\ snapshots = <<>>
    /\ metrics = <<>>
    /\ now = 0
    /\ last = [op |-> "init"]
    /\ sessions = [w \in Workers |-> Idle]
    /\ subject \in Subjects
    /\ result = None

\* the subject as a row of the accounts table, no health computed yet
SubjectRow ==
    subject @@ [health_score |-> Int2Q(0), health_bucket |-> None,
                updated_at |-> subject.created_at]

\* record_snapshot(subject): save_health_snapshot on the subject, stored as
\* account 1 of an empty database
RecordSnapshot ==
    /\ ~IsNone(result)
    /\ snapshots = <<>>
    /\ \E db \in {save_health_snapshot([EmptyDb EXCEPT !.accounts = 1 :> SubjectRow],
                                        1, now, TRUE)} :
          /\ accounts' = db.accounts
          /\ snapshots' = db.snapshots
    /\ UNCHANGED <<metrics, now, last, sessions, subject, result>>

NextScore ==
    \/ ScoreAccount
    \/ RecordSnapshot

SpecScore == InitScore /\ [][NextScore]_vars

(***************************************************************************)
(* normalize on its own: applied to two values and one range, with and     *)
(* without inverse.  The harness keeps the arguments in subject and what   *)
(* normalize returned in result.                                           *)
(***************************************************************************)
\* the values: -1, -1/2, 0, ... 4
NormalizeValues == {Q(k, 2) : k \in (0 - 2)..8}

\* the ends of the range
NormalizeEnds == {Int2Q(k) : k \in 0..3}

\* normalize(v, min_val, max_val) and normalize(v, min_val, max_val, inverse=True)
NormalizeBoth(v, min_val, max_val) ==
    [direct |-> normalize(v, min_val, max_val, FALSE),
     inverse |-> normalize(v, min_val, max_val, TRUE)]

Normalize ==
    /\ IsNone(result)
    /\ result' = Some([value |-> NormalizeBoth(subject.value, subject.min_val, subject.max_val),
                       other |-> NormalizeBoth(subject.other, subject.min_val, subject.max_val)])
    /\ UNCHANGED <<accounts, snapshots, metrics, now, last, sessions, subject>>

InitNormalize ==
    /\ accounts = <<>>
    /\ snapshots = <<>>
    /\ metrics = <<>>
    /\ now = 0
    /\ last = [op |-> "init"]
    /\ sessions = [w \in Workers |-> Idle]
    /\ subject \in [value : NormalizeValues, other : NormalizeValues,
                     min_val : NormalizeEnds, max_val : NormalizeEnds]
    /\ result = None

NextNormalize == Normalize

SpecNormalize == InitNormalize /\ [][NextNormalize]_vars

(***************************************************************************)
(* calculate_health_score on the accounts of the two concrete scenarios    *)
(* and the accounts between them, at the clock reading 0: the fields the   *)
(* scenarios leave open take a value that is no signal of its own (time to *)
(* value unknown or at most 90 days, the last QBR today or 30 days ago).   *)
(***************************************************************************)
ScenarioSubjects ==
    [name : {"Acme Corp"}, arr : {100000}, segment : {"SMB"},
     renewal_date : {None, Some(20)},
     active_users : {30, 90}, seats_purchased : {100},
     feature_x_adoption : {Q(4, 5)},
     weekly_active_pct : {Q(7, 10)},
     time_to_value_days : {None, Some(0), Some(30), Some(90)},
     tickets_last_30d : {0, 15}, critical_tickets_90d : {0, 4},
     sla_breaches_90d : {0},
     nps : {Some(60), Some(0 - 20)},
     qbr_last_date : {Some(0), Some(0 - 30)},
     onboarding_phase : {FALSE},
     expansion_oppty_dollar : {0},
     created_at : {0}]

InitScenario ==
    /\ accounts = <<>>
    /\ snapshots = <<>>
    /\ metrics = <<>>
    /\ now = 0
    /\ last = [op |-> "init"]
    /\ sessions = [w \in Workers |-> Idle]
    /\ subject \in ScenarioSubjects
    /\ result = None

NextScenario == ScoreAccount

SpecScenario == InitScenario /\ [][NextScenario]_vars

(***************************************************************************)
(* calculate_health_score at the edges of its conditions, at the clock     *)
(* reading 0: accounts on both sides of every threshold of the commercial  *)
(* signal, the adoption ratio and the onboarding term, and accounts on     *)
(* both sides of every threshold that emits a factor.                      *)
(***************************************************************************)
\* renewal the day before, today, 60 and 61 days ahead; adoption ratios around
\* 0.3, 0.5 and 0.9; created today, 30 and 31 days ago; an expansion
\* opportunity of 0, 10, 25 and 100 percent of the ARR, and of no ARR at all
CommercialSubjects ==
    [name : {"Acme Corp"}, arr : {0, 100000}, segment : {"SMB"},
     renewal_date : {None, Some(0 - 1), Some(0), Some(60), Some(61)},
     active_users : {0, 29, 30, 49, 50, 89, 90, 240}, seats_purchased : {100},
     feature_x_adoption : {Q(1, 2)},
     weekly_active_pct : {Q(1, 2)},
     time_to_value_days : {None},
     tickets_last_30d : {5}, critical_tickets_90d : {0},
     sla_breaches_90d : {0},
     nps : {None},
     qbr_last_date : {Some(0)},
     onboarding_phase : BOOLEAN,
     expansion_oppty_dollar : {0, 10000, 25000, 100000},
     created_at : {0, MonthAgo, LongAgo}]

\* each input on the two sides of the threshold of its factor
SignSubjects ==
    [name : {"Acme Corp"}, arr : {100000}, segment : {"SMB"},
     renewal_date : {None, Some(0)},
     active_users : {29, 90}, seats_purchased : {100},
     feature_x_adoption : {Q(29, 100), Q(7, 10)},
     weekly_active_pct : {Q(29, 100), Q(3, 10)},
     time_to_value_days : {Some(30), Some(91)},
     tickets_last_30d : {0, 11}, critical_tickets_90d : {3, 4},
     sla_breaches_90d : {2, 3},
     nps : {Some(50), Some(0 - 1)},
     qbr_last_date : {None, Some(0 - 121)},
     onboarding_phase : {TRUE},
     expansion_oppty_dollar : {0, 25000},
     created_at : {0, LongAgo}]

InitEdges ==
    /\ accounts = <<>>
    /\ snapshots = <<>>
    /\ metrics = <<>>
    /\ now = 0
    /\ last = [op |-> "init"]
    /\ sessions = [w \in Workers |-> Idle]
    /\ subject \in CommercialSubjects \cup SignSubjects
    /\ result = None

NextEdges == ScoreAccount

SpecEdges == InitEdges /\ [][NextEdges]_vars

(***************************************************************************)
(* calculate_health_score called again: on the same account after time    *)
(* has passed, and on the account with more active users or more tickets   *)
(* at the same clock reading.                                              *)
(***************************************************************************)
\* accounts whose QBR, onboarding and renewal terms lie at the edges of their
\* day ranges at the clock reading 0
RescoreSubjects ==
    [name : {"Acme Corp"}, arr : {100000}, segment : {"SMB"},
     renewal_date : {None, Some(0), Some(61)},
     active_users : {0, 30, 90}, seats_purchased : {100},
     feature_x_adoption : {Q(4, 5)},
     weekly_active_pct : {Q(7, 10)},
     time_to_value_days : {None},
     tickets_last_30d : {0, 15}, critical_tickets_90d : {0},
     sla_breaches_90d : {0},
     nps : {Some(60)},
     qbr_last_date : {None, Some(0), Some(0 - 120)},
     onboarding_phase : BOOLEAN,
     expansion_oppty_dollar : {0},
     created_at : {MonthAgo}]

\* by how much the second account of a comparison has more users or tickets
MoreUsers == {1, 60}

MoreTickets == {1, 10}

\* calculate_health_score(subject) once more, the account unchanged
ScoreAgain ==
    /\ ~IsNone(result)
    /\ last' = [op |-> "again", result |-> calculate_health_score(subject, now)]
    /\ UNCHANGED <<accounts, snapshots, metrics, now, sessions, subject, result>>

\* calculate_health_score of the account and of the same account with more
\* active users, with the adoption-ratio sub-score of each
ScoreMoreUsers ==
    \E more \in MoreUsers :
        /\ last' = [op |-> "more_users",
                    sub_score |-> adoption_ratio_score(subject),
                    score |-> calculate_health_score(subject, now).score,
                    more_sub_score |->
                        adoption_ratio_score([subject EXCEPT !.active_users = @ + more]),
                    more_score |->
                        calculate_health_score([subject EXCEPT !.active_users = @ + more],
                                               now).score]
        /\ UNCHANGED <<accounts, snapshots, metrics, now, sessions, subject, result>>

\* calculate_health_score of the account and of the same account with more
\* tickets in the last 30 days, with the tickets sub-score of each
ScoreMoreTickets ==
    \E more \in MoreTickets :
        /\ last' = [op |-> "more_tickets",
                    sub_score |-> tickets_score(subject),
                    score |-> calculate_health_score(subject, now).score,
                    more_sub_score |->
                        tickets_score([subject EXCEPT !.tickets_last_30d = @ + more]),
                    more_score |->
                        calculate_health_score([subject EXCEPT !.tickets_last_30d = @ + more],
                                               now).score]
        /\ UNCHANGED <<accounts, snapshots, metrics, now, sessions, subject, result>>

InitRescore ==
    /\ accounts = <<>>
    /\ snapshots = <<>>
    /\ metrics = <<>>
    /\ now = 0
    /\ last = [op |-> "init"]
    /\ sessions = [w \in Workers |-> Idle]
    /\ subject \in RescoreSubjects
    /\ result = None

NextRescore ==
    \/ ScoreAccount
    \/ ScoreAgain
    \/ ScoreMoreUsers
    \/ ScoreMoreTickets
    \/ ClockTick

SpecRescore == InitRescore /\ [][NextRescore]_vars

(***************************************************************************)
(* Two worker processes (lambda_handler.py wraps the app for one process   *)
(* per instance) serve POST /health/recompute at the same time, each with  *)
(* its own session on the one database.  A worker's request is the select, *)
(* then per account the scoring with the clock reading and the commit.     *)
(* Two readings of the clock for one account are never the same instant.   *)
(***************************************************************************)
\* the companies of the mock data the workers start from
ParCompanies == <<"Acme Corp", "TechStart Inc">>

\* the row of account id as a session holds it: as the select loaded it, or
\* read again once a commit has expired the session's objects
SessionRow(sess, db, id) ==
    IF id \in DOMAIN sess.rows THEN sess.rows[id] ELSE db.accounts[id]

\* the flush of save_health_snapshot's commit: an UPDATE of the attributes
\* whose value differs from the loaded one, and the INSERT of the snapshot
CommitWrites(db, id, loaded, snapshot) ==
    [db EXCEPT !.accounts[id].health_score =
                   IF snapshot.score = loaded.health_score THEN @ ELSE snapshot.score,
               !.accounts[id].health_bucket =
                   IF Some(snapshot.risk_label) = loaded.health_bucket
                   THEN @ ELSE Some(snapshot.risk_label),
               !.snapshots = Append(@, [snapshot EXCEPT !.id = NextSnapshotId(db)])]

\* some snapshot of account id, stored or about to be committed, carries the
\* instant t
InstantTaken(id, t) ==
    \/ \E i \in 1..Len(snapshots) :
          snapshots[i].account_id = id /\ snapshots[i].calculated_at = t
    \/ \E w \in Workers :
          /\ sessions[w].pc = "commit"
          /\ sessions[w].snapshot.account_id = id
          /\ sessions[w].snapshot.calculated_at = t

\* recompute_all_health_scores: accounts = session.exec(select(Account)).all()
ParSelect(w) ==
    /\ sessions[w].pc = "idle"
    /\ \E order \in Orders(Ids(Db)) :
          sessions' = [sessions EXCEPT ![w] =
                          [pc |-> "loop", todo |-> order, rows |-> accounts, count |-> 0]]
    /\ UNCHANGED <<accounts, snapshots, metrics, now, last, subject, result>>

\* save_health_snapshot up to its commit: the score of the session's row and
\* the snapshot with calculated_at = utcnow()
ParScore(w) ==
    /\ sessions[w].pc = "loop"
    /\ sessions[w].todo # <<>>
    /\ ~InstantTaken(Head(sessions[w].todo), now)
    /\ \E row \in {SessionRow(sessions[w], Db, Head(sessions[w].todo))} :
          sessions' = [sessions EXCEPT ![w] =
                          [pc |-> "commit", todo |-> @.todo, rows |-> @.rows,
                           count |-> @.count, loaded |-> row,
                           snapshot |-> HealthSnapshot(0, Head(@.todo), now,
                                                       calculate_health_score(row, now))]]
    /\ UNCHANGED <<accounts, snapshots, metrics, now, last, subject, result>>

\* save_health_snapshot's session.commit() and the loop's count += 1
ParCommit(w) ==
    /\ sessions[w].pc = "commit"
    /\ \E db \in {CommitWrites(Db, sessions[w].snapshot.account_id, sessions[w].loaded,
                               sessions[w].snapshot)} :
          /\ accounts' = db.accounts
          /\ snapshots' = db.snapshots
    /\ sessions' = [sessions EXCEPT ![w] =
                       [pc |-> "loop", todo |-> Tail(@.todo), rows |-> <<>>,
                        count |-> @.count + 1]]
    /\ UNCHANGED <<metrics, now, last, subject, result>>

\* recompute_health's response once the loop is through
ParReturn(w) ==
    /\ sessions[w].pc = "loop"
    /\ sessions[w].todo = <<>>
    /\ sessions' = [sessions EXCEPT ![w] = Idle]
    /\ last' = [op |-> "recompute", status |-> 200,
                accounts_updated |-> sessions[w].count,
                snapshots_created |-> sessions[w].count]
    /\ UNCHANGED <<accounts, snapshots, metrics, now, subject, result>>

\* time passes
ParClockTick ==
    /\ now < MaxTime
    /\ now' = now + 1
    /\ UNCHANGED <<accounts, snapshots, metrics, last, sessions, subject, result>>

\* the database one instant after POST /ingest/generate-mock?count=2 built it
InitPar ==
    /\ \E draw \in MockDraws :
       \E st \in {generate_mock_data(ParCompanies, [i \in 1..2 |-> draw], 0 - 1, {})} :
          /\ accounts = st.db.accounts
          /\ snapshots = st.db.snapshots
          /\ metrics = st.db.metrics
    /\ now = 0
    /\ last = [op |-> "init"]
    /\ sessions = [w \in Workers |-> Idle]
    /\ subject = NoSubject
    /\ result = None

NextPar ==
    \/ \E w \in Workers : ParSelect(w)
    \/ \E w \in Workers : ParScore(w)
    \/ \E w \in Workers : ParCommit(w)
    \/ \E w \in Workers : ParReturn(w)
    \/ ParClockTick

SpecPar == InitPar /\ [][NextPar]_vars

(***************************************************************************)
(* Properties of the snapshot store, under Spec                            *)
(***************************************************************************)
\* the snapshots of account id, in insertion order
SnapshotsOf(snaps, id) == SelectSeq(snaps, LAMBDA s : s.account_id = id)

\* the live health fields of account id
LiveHealth(accs, id) == <<accs[id].health_score, accs[id].health_bucket>>

\* the health fields a snapshot gives its account
HealthOf(snapshot) == <<snapshot.score, Some(snapshot.risk_label)>>

\* the indices of the factors of fs with a negative impact
NegativeAt(fs) == {k \in 1..Len(fs) : RLt(fs[k].impact, Int2Q(0))}

\* new_snaps is old_snaps with exactly one snapshot appended
OneAppended(old_snaps, new_snaps) ==
    /\ Len(new_snaps) = Len(old_snaps) + 1
    /\ SubSeq(new_snaps, 1, Len(old_snaps)) = old_snaps

\* both writes of a save are visible, or neither is
BothOrNeither(old_snaps, old_health, new_snaps, new_health) ==
    \/ new_snaps = old_snaps /\ new_health = old_health
    \/ OneAppended(old_snaps, new_snaps) /\ new_health = HealthOf(new_snaps[Len(new_snaps)])

\* C1: whatever requests have run, every account with at least one snapshot
\* has its health_score and health_bucket equal to the score and risk_label of
\* its snapshot with the greatest calculated_at.
C1_LiveHealthIsLatestSnapshot ==
    \A id \in DOMAIN accounts :
        \A i \in 1..Len(snapshots) :
            (/\ snapshots[i].account_id = id
             /\ \A j \in 1..Len(snapshots) :
                    snapshots[j].account_id = id
                        => snapshots[j].calculated_at <= snapshots[i].calculated_at)
                => LiveHealth(accounts, id) = HealthOf(snapshots[i])

\* C1's case: a recompute has given an account a second snapshot with another
\* score than its first
C1_Witness ==
    /\ last.op = "recompute"
    /\ \E id \in DOMAIN accounts :
          /\ Len(SnapshotsOf(snapshots, id)) = 2
          /\ SnapshotsOf(snapshots, id)[1].score # SnapshotsOf(snapshots, id)[2].score
          /\ accounts[id].health_score = SnapshotsOf(snapshots, id)[2].score

\* C2: recompute_all never raises: every POST /health/recompute ends with the
\* count of the accounts it updated, whatever commits failed.
C2_RecomputeAllNeverRaises == last.op = "recompute" => last.status = 200

\* C3, as stated: across every operation, mock-data generation included, the
\* snapshots already stored stay as they are and where they are.
C3_AppendOnlyEverywhere ==
    [][/\ Len(snapshots') >= Len(snapshots)
       /\ SubSeq(snapshots', 1, Len(snapshots)) = snapshots]_vars

\* C3: across every operation but mock-data generation (which deletes all
\* rows first), the snapshots already stored stay as they are and where they
\* are: the history only grows.
C3_AppendOnlyButMock ==
    [][last'.op # "mock" =>
          /\ Len(snapshots') >= Len(snapshots)
          /\ SubSeq(snapshots', 1, Len(snapshots)) = snapshots]_vars

\* C3's case: a successful recompute on a database that held snapshots
C3_Witness ==
    /\ last.op = "recompute" /\ last.status = 200
    /\ Len(snapshots) > Cardinality(DOMAIN accounts)
    /\ Cardinality(DOMAIN accounts) > 0

\* C4: a save is atomic per account: over every step, for every account,
\* either one snapshot is appended and the live fields are those of that
\* snapshot, or the account's snapshots and live fields are both unchanged
\* (an account that is new starts from no snapshot, score 0 and no bucket).
C4_RecordSnapshotAtomic ==
    [][\A id \in DOMAIN accounts' :
          IF last'.op = "mock" \/ id \notin DOMAIN accounts
          THEN BothOrNeither(<<>>, <<Int2Q(0), None>>,
                             SnapshotsOf(snapshots', id), LiveHealth(accounts', id))
          ELSE BothOrNeither(SnapshotsOf(snapshots, id), LiveHealth(accounts, id),
                             SnapshotsOf(snapshots', id), LiveHealth(accounts', id))]_vars

\* C4's case: a recompute whose commit failed, surfaced as a 500, on a
\* database with an account that has a snapshot
C4_Witness ==
    /\ last.op = "recompute" /\ last.status = 500
    /\ \E id \in DOMAIN accounts : Len(SnapshotsOf(snapshots, id)) >= 1

\* C5, as stated: the history of an account with N snapshots has exactly N
\* entries.
C5_HistoryHasAllSnapshots ==
    (last.op = "history" /\ last.status = 200)
        => Len(last.body) = Len(SnapshotsOf(snapshots, last.account_id))

\* C5: the history of an account with N snapshots has min(N, limit) entries,
\* the most recent ones, in strictly descending calculated_at order, and the
\* account's live health_score is the score of the first entry.
C5_HistoryIsNewestUpToLimit ==
    (last.op = "history" /\ last.status = 200) =>
        /\ Len(last.body) = Min({last.limit, Len(SnapshotsOf(snapshots, last.account_id))})
        /\ \A i \in 1..Len(last.body) :
              /\ last.body[i].account_id = last.account_id
              /\ \E k \in 1..Len(snapshots) : snapshots[k] = last.body[i]
              /\ \A j \in 1..Len(last.body) :
                    i < j => last.body[i].calculated_at > last.body[j].calculated_at
              /\ \A k \in 1..Len(snapshots) :
                    (/\ snapshots[k].account_id = last.account_id
                     /\ \A j \in 1..Len(last.body) : last.body[j] # snapshots[k])
                        => snapshots[k].calculated_at < last.body[i].calculated_at
        /\ Len(last.body) >= 1 => accounts[last.account_id].health_score = last.body[1].score

\* C5's case: the history of an account with two snapshots, asked with limit 1
C5_Witness ==
    /\ last.op = "history" /\ last.status = 200 /\ last.limit = 1
    /\ Len(SnapshotsOf(snapshots, last.account_id)) = 2
    /\ Len(last.body) = 1

\* C8: each successful save appends exactly one snapshot: a recompute that
\* answers 200 leaves every account with one snapshot more, N more in all for
\* N accounts, and reports N; mock-data generation leaves one snapshot per
\* account it created and whose save did not fail.
C8_OneSnapshotPerSave ==
    [][/\ (last'.op = "recompute" /\ last'.status = 200) =>
             /\ DOMAIN accounts' = DOMAIN accounts
             /\ Len(snapshots') = Len(snapshots) + Cardinality(DOMAIN accounts)
             /\ last'.snapshots_created = Cardinality(DOMAIN accounts)
             /\ last'.accounts_updated = Cardinality(DOMAIN accounts)
             /\ \A id \in DOMAIN accounts :
                   OneAppended(SnapshotsOf(snapshots, id), SnapshotsOf(snapshots', id))
       /\ last'.op = "mock" =>
             Len(snapshots') = last'.accounts_created - Len(last'.errors)]_vars

\* C8's case: a recompute over two accounts that answered 200 with the count 2
C8_Witness ==
    /\ last.op = "recompute" /\ last.status = 200
    /\ last.snapshots_created = 2
    /\ Cardinality(DOMAIN accounts) = 2

\* C9: recomputation is independent across accounts: over every recompute
\* step no account is added or removed, an account changes in nothing but
\* health_score and health_bucket, an account that got no new snapshot does
\* not change at all, the stored snapshots and the metrics stay, every new
\* snapshot is what calculate_health_score gives for its own account's fields
\* at the instant of the request, and whatever order the accounts come in the
\* accounts end up the same.
C9_RecomputeIndependent ==
    [][last'.op = "recompute" =>
          /\ DOMAIN accounts' = DOMAIN accounts
          /\ metrics' = metrics
          /\ Len(snapshots') >= Len(snapshots)
          /\ SubSeq(snapshots', 1, Len(snapshots)) = snapshots
          /\ \A id \in DOMAIN accounts :
                /\ [accounts'[id] EXCEPT !.health_score = accounts[id].health_score,
                                         !.health_bucket = accounts[id].health_bucket]
                       = accounts[id]
                /\ (\A i \in (Len(snapshots) + 1)..Len(snapshots') :
                        snapshots'[i].account_id # id) => accounts'[id] = accounts[id]
          /\ \A i \in (Len(snapshots) + 1)..Len(snapshots') :
                /\ snapshots'[i].account_id \in DOMAIN accounts
                /\ snapshots'[i] =
                       HealthSnapshot(snapshots'[i].id, snapshots'[i].account_id, now,
                                      calculate_health_score(
                                          accounts[snapshots'[i].account_id], now))
          /\ last'.status = 200 =>
                \A order \in Orders(DOMAIN accounts) :
                    recompute_all_health_scores(Db, order, now, {}).db.accounts = accounts']_vars

\* C9's case: a recompute that answered 200 over two accounts with different
\* scores
C9_Witness ==
    /\ last.op = "recompute" /\ last.status = 200
    /\ Cardinality(DOMAIN accounts) = 2
    /\ \E a, b \in DOMAIN accounts : accounts[a].health_score # accounts[b].health_score

\* labels are the labels of the negative-impact factors of fs, in the order of fs
LabelsOfNegative(labels, fs) ==
    /\ Len(labels) = Cardinality(NegativeAt(fs))
    /\ \A i \in 1..Len(labels) :
          \E k \in NegativeAt(fs) :
              /\ fs[k].factor = labels[i]
              /\ Cardinality({j \in NegativeAt(fs) : j < k}) = i - 1

\* C14: a request for recommendations or insights for an account uses as
\* risk factors exactly the labels of the negative-impact factors of the
\* account's snapshot with the greatest calculated_at, in the snapshot's
\* order; with no snapshot the list is empty and nothing is recommended.
C14_RiskFactorsFromLatestSnapshot ==
    (last.op \in {"recommend", "insights"} /\ last.status = 200 /\ ~IsNone(last.account_id)) =>
        /\ SnapshotsOf(snapshots, Val(last.account_id)) = <<>> =>
              /\ last.risk_factors = <<>>
              /\ last.op = "recommend" => last.recommendations = <<>>
        /\ \A i \in 1..Len(snapshots) :
              (/\ snapshots[i].account_id = Val(last.account_id)
               /\ \A j \in 1..Len(snapshots) :
                      snapshots[j].account_id = Val(last.account_id)
                          => snapshots[j].calculated_at <= snapshots[i].calculated_at)
                  => LabelsOfNegative(last.risk_factors, snapshots[i].top_factors)

\* C14's case: recommendations for an account with two snapshots, the latest
\* with positive and negative factors and other risk factors than the first
C14_Witness ==
    /\ last.op = "recommend" /\ last.status = 200 /\ ~IsNone(last.account_id)
    /\ Len(SnapshotsOf(snapshots, Val(last.account_id))) = 2
    /\ Len(last.risk_factors) >= 2
    /\ Len(last.risk_factors) < Len(SnapshotsOf(snapshots, Val(last.account_id))[2].top_factors)
    /\ ~LabelsOfNegative(last.risk_factors,
                         SnapshotsOf(snapshots, Val(last.account_id))[1].top_factors)
    /\ last.recommendations # <<>>

(***************************************************************************)
(* Properties of concurrent recomputes, under SpecPar                      *)
(***************************************************************************)
\* C6: concurrent recomputes of one account are isolated: once no recompute
\* is in flight, every account's health_score and health_bucket are those of
\* its snapshot with the greatest calculated_at.
C6_ConcurrentRecomputesIsolated ==
    (\A w \in Workers : sessions[w].pc = "idle") =>
        \A id \in DOMAIN accounts :
            \A i \in 1..Len(snapshots) :
                (/\ snapshots[i].account_id = id
                 /\ \A j \in 1..Len(snapshots) :
                        snapshots[j].account_id = id
                            => snapshots[j].calculated_at <= snapshots[i].calculated_at)
                    => LiveHealth(accounts, id) = HealthOf(snapshots[i])

\* C7: of two snapshots of one account, the one inserted later never has the
\* earlier calculated_at.
C7_CalculatedAtFollowsInsertion ==
    \A i, j \in 1..Len(snapshots) :
        (i < j /\ snapshots[i].account_id = snapshots[j].account_id)
            => snapshots[i].calculated_at <= snapshots[j].calculated_at

(***************************************************************************)
(* Properties of the scoring function, under SpecScore                     *)
(***************************************************************************)
\* C10: the score of every account lies in [0, 110], and the label is Green
\* exactly when score >= 75, Amber exactly when 50 <= score < 75, Red exactly
\* when score < 50.
C10_ScoreRangeAndBucket ==
    ~IsNone(result) =>
        /\ RLe(Int2Q(0), Val(result).score)
        /\ RLe(Val(result).score, Int2Q(110))
        /\ Val(result).risk_label \in {"Green", "Amber", "Red"}
        /\ Val(result).risk_label = "Green" <=> RLe(Int2Q(75), Val(result).score)
        /\ Val(result).risk_label = "Amber" <=>
              (RLe(Int2Q(50), Val(result).score) /\ RLt(Val(result).score, Int2Q(75)))
        /\ Val(result).risk_label = "Red" <=> RLt(Val(result).score, Int2Q(50))

\* C10's case: an account that scores exactly 75 and is labelled Green
C10_Witness ==
    /\ ~IsNone(result)
    /\ Val(result).score = Int2Q(75)
    /\ Val(result).risk_label = "Green"

\* the sum of the sub-scores of parts, the k-th left out
RECURSIVE SumScoresBut(_, _)
SumScoresBut(parts, k) ==
    IF parts = <<>> THEN Int2Q(0)
    ELSE RAdd(SumScoresBut(SubSeq(parts, 1, Len(parts) - 1), k),
              IF Len(parts) = k THEN Int2Q(0) ELSE parts[Len(parts)].score)

\* the factor list fs has an entry labelled name
HasFactor(fs, name) == \E i \in 1..Len(fs) : fs[i].factor = name

\* C12: score_account returns for every combination of missing optional
\* fields.  A missing nps counts 7.5 points and a missing time_to_value_days
\* 5 points, each with no factor of its own; a missing qbr_last_date counts 0
\* points and gives the factor 'No QBR history' with impact -5.
C12_MissingOptionalFieldsAreNeutral ==
    ~IsNone(result) =>
          /\ Val(result).risk_label \in {"Green", "Amber", "Red"}
          /\ IsNone(subject.nps) =>
                /\ Val(result).score =
                       ClampScore(RAdd(SumScoresBut(ScoreParts(subject, now), 9), Q(15, 2)))
                /\ ~HasFactor(Val(result).top_factors, "Promoter NPS")
                /\ ~HasFactor(Val(result).top_factors, "Detractor NPS")
          /\ IsNone(subject.time_to_value_days) =>
                /\ Val(result).score =
                       ClampScore(RAdd(SumScoresBut(ScoreParts(subject, now), 5), Int2Q(5)))
                /\ ~HasFactor(Val(result).top_factors, "Fast time to value")
                /\ ~HasFactor(Val(result).top_factors, "Slow time to value")
          /\ IsNone(subject.qbr_last_date) =>
                /\ Val(result).score =
                       ClampScore(RAdd(SumScoresBut(ScoreParts(subject, now), 10), Int2Q(0)))
                /\ \E i \in 1..Len(Val(result).top_factors) :
                       Val(result).top_factors[i] =
                           [factor |-> "No QBR history", impact |-> Int2Q(-5)]
                /\ ~HasFactor(Val(result).top_factors, "Overdue QBR")

\* C12's case: an account with nps, time_to_value_days and qbr_last_date all
\* missing has been scored
C12_Witness ==
    /\ ~IsNone(result)
    /\ IsNone(subject.nps)
    /\ IsNone(subject.time_to_value_days)
    /\ IsNone(subject.qbr_last_date)
    /\ HasFactor(Val(result).top_factors, "No QBR history")

\* fs is in non-increasing order of absolute impact
SortedByAbsImpact(fs) ==
    \A i \in 1..(Len(fs) - 1) : RLe(RAbs(fs[i + 1].impact), RAbs(fs[i].impact))

\* fs holds at most 10 of the emitted factors, each once, in non-increasing
\* order of absolute impact, and no emitted factor left out has a greater
\* absolute impact than one that is kept
TopTenOf(fs, emitted) ==
    /\ Len(fs) = Min({10, Len(emitted)})
    /\ SortedByAbsImpact(fs)
    /\ \A i \in 1..Len(fs) : \E k \in 1..Len(emitted) : emitted[k] = fs[i]
    /\ \A i, j \in 1..Len(fs) : i # j => fs[i].factor # fs[j].factor
    /\ \A k \in 1..Len(emitted) :
          (\A i \in 1..Len(fs) : fs[i] # emitted[k])
              => \A i \in 1..Len(fs) : RLe(RAbs(emitted[k].impact), RAbs(fs[i].impact))

\* C13: the factor list score_account returns, and the one stored in the
\* snapshot, has at most 10 entries in non-increasing order of absolute
\* impact; of more than 10 emitted factors the ones dropped have the smallest
\* absolute impact.
C13_TopTenFactorsByAbsImpact ==
    /\ ~IsNone(result) =>
          TopTenOf(Val(result).top_factors, AllFactors(ScoreParts(subject, now)))
    /\ \A i \in 1..Len(snapshots) :
          /\ Len(snapshots[i].top_factors) <= 10
          /\ TopTenOf(snapshots[i].top_factors, AllFactors(ScoreParts(subject, now)))

\* C13's case: an account for which all 12 factors are emitted has been
\* scored and its snapshot stored with 10 of them
C13_Witness ==
    /\ ~IsNone(result)
    /\ Len(AllFactors(ScoreParts(subject, now))) = 12
    /\ Len(Val(result).top_factors) = 10
    /\ Len(snapshots) = 1
    /\ Len(snapshots[1].top_factors) = 10

\* the points each of the eleven base sub-scores is multiplied up to, in the
\* order of ScoreParts
Weights == <<20, 10, 5, 10, 10, 8, 8, 4, 15, 5, 5>>

RECURSIVE SumSeq(_)
SumSeq(s) == IF s = <<>> THEN 0 ELSE s[1] + SumSeq(Tail(s))

\* base_score: the sum of the eleven sub-scores, before commercial_bonus
BaseScore(parts) == SumScores(SubSeq(parts, 1, Len(Weights)))

\* commercial_bonus: the expansion bonus plus the renewal penalty
CommercialBonus(parts) == RAdd(parts[12].score, parts[13].score)

\* the eleven sub-scores of parts lie between 0 and their weights, their sum
\* lies in [0, 100], score is the clamped sum of all parts, and it is above
\* 100 only with a positive expansion bonus
BaseWithinHundred(parts, score) ==
    /\ \A k \in 1..Len(Weights) :
          /\ RLe(Int2Q(0), parts[k].score)
          /\ RLe(parts[k].score, Int2Q(Weights[k]))
    /\ RLe(Int2Q(0), BaseScore(parts))
    /\ RLe(BaseScore(parts), Int2Q(100))
    /\ score = ClampScore(RAdd(BaseScore(parts), CommercialBonus(parts)))
    /\ RLt(Int2Q(100), score) => RLt(Int2Q(0), parts[12].score)

\* every sub-score of parts is at its weight
AllAtWeight(parts) == \A k \in 1..Len(Weights) : parts[k].score = Int2Q(Weights[k])

\* C21: the base score lies in [0, 100] for every valid account: each of the
\* eleven sub-scores lies between 0 and its weight, the weights sum to 100,
\* and a final score above 100 comes only with a positive expansion bonus.
C21_BaseScoreWithinHundred ==
    ~IsNone(result) =>
        /\ SumSeq(Weights) = 100
        /\ BaseWithinHundred(ScoreParts(subject, now), Val(result).score)

\* C21's case: an account with every sub-score at its weight, base score 100,
\* scored 110 with the expansion bonus
C21_Witness ==
    /\ ~IsNone(result)
    /\ Val(result).score = Int2Q(110)
    /\ AllAtWeight(ScoreParts(subject, now))

(***************************************************************************)
(* Properties of normalize, under SpecNormalize                            *)
(***************************************************************************)
\* C15: normalize returns a value in [0, 1]; exactly 1/2 when min == max,
\* with or without inverse; for min < max the boundary 0 for a value at or
\* below min, 1 for a value at or above max and the linear scale between; and
\* with inverse 1 minus what it returns without.
C15_NormalizeRange ==
    ~IsNone(result) =>
        /\ RLe(Int2Q(0), Val(result).value.direct) /\ RLe(Val(result).value.direct, Int2Q(1))
        /\ RLe(Int2Q(0), Val(result).value.inverse) /\ RLe(Val(result).value.inverse, Int2Q(1))
        /\ subject.min_val = subject.max_val =>
              Val(result).value.direct = Q(1, 2) /\ Val(result).value.inverse = Q(1, 2)
        /\ RLt(subject.min_val, subject.max_val) =>
              /\ RLe(subject.value, subject.min_val) => Val(result).value.direct = Int2Q(0)
              /\ RLe(subject.max_val, subject.value) => Val(result).value.direct = Int2Q(1)
              /\ (RLe(subject.min_val, subject.value) /\ RLe(subject.value, subject.max_val)) =>
                    Val(result).value.direct =
                        RDiv(RSub(subject.value, subject.min_val),
                             RSub(subject.max_val, subject.min_val))
        /\ Val(result).value.inverse = RSub(Int2Q(1), Val(result).value.direct)

\* C15's case: a value above the range has been normalized to the boundary
C15_Witness ==
    /\ ~IsNone(result)
    /\ RLt(subject.min_val, subject.max_val)
    /\ RLt(subject.max_val, subject.value)
    /\ Val(result).value.direct = Int2Q(1)
    /\ Val(result).value.inverse = Int2Q(0)

\* C16, as stated: for every min and max, a greater value never has the
\* smaller result without inverse nor the greater result with inverse.
C16_NormalizeMonotoneForEveryRange ==
    (~IsNone(result) /\ RLe(subject.value, subject.other)) =>
        /\ RLe(Val(result).value.direct, Val(result).other.direct)
        /\ RLe(Val(result).other.inverse, Val(result).value.inverse)

\* C16: for every min <= max, a greater value never has the smaller result
\* without inverse nor the greater result with inverse.
C16_NormalizeMonotone ==
    (~IsNone(result) /\ RLe(subject.value, subject.other)
        /\ RLe(subject.min_val, subject.max_val)) =>
        /\ RLe(Val(result).value.direct, Val(result).other.direct)
        /\ RLe(Val(result).other.inverse, Val(result).value.inverse)

\* C16's case: two values inside a range min < max, with different results
C16_Witness ==
    /\ ~IsNone(result)
    /\ RLt(subject.min_val, subject.max_val)
    /\ RLt(subject.value, subject.other)
    /\ RLt(Val(result).value.direct, Val(result).other.direct)
    /\ RLt(Val(result).other.inverse, Val(result).value.inverse)

(***************************************************************************)
(* The concrete scenarios, under SpecScenario                              *)
(***************************************************************************)
\* the healthy scenario: 90 of 100 seats active, no tickets, nps 60, no renewal
\* date
IsHealthyScenario(a) ==
    /\ a.active_users = 90 /\ a.seats_purchased = 100
    /\ a.feature_x_adoption = Q(4, 5) /\ a.weekly_active_pct = Q(7, 10)
    /\ a.tickets_last_30d = 0 /\ a.critical_tickets_90d = 0 /\ a.sla_breaches_90d = 0
    /\ a.nps = Some(60) /\ ~a.onboarding_phase
    /\ a.expansion_oppty_dollar = 0 /\ IsNone(a.renewal_date)

\* the at-risk scenario: 30 of 100 seats active, 15 tickets, 4 critical tickets,
\* nps -20, the renewal 20 days ahead of day t
IsAtRiskScenario(a, t) ==
    /\ a.active_users = 30 /\ a.seats_purchased = 100
    /\ a.feature_x_adoption = Q(4, 5) /\ a.weekly_active_pct = Q(7, 10)
    /\ a.tickets_last_30d = 15 /\ a.critical_tickets_90d = 4 /\ a.sla_breaches_90d = 0
    /\ a.nps = Some(0 - 20) /\ ~a.onboarding_phase
    /\ a.expansion_oppty_dollar = 0 /\ a.renewal_date = Some(Today(t) + 20)

C19_HealthyScenarioScoresHigh ==
    (~IsNone(result) /\ IsHealthyScenario(subject)) =>
        /\ RLe(Int2Q(85), Val(result).score)
        /\ RLt(Val(result).score, Int2Q(100))

\* C20: the account of the at-risk scenario is scored Red, 'Renewal risk: low
\* adoption' is among its factors and 'Detractor NPS' among those with a
\* negative impact.
C20_AtRiskScenarioIsRed ==
    (~IsNone(result) /\ IsAtRiskScenario(subject, now)) =>
        /\ Val(result).risk_label = "Red"
        /\ HasFactor(Val(result).top_factors, "Renewal risk: low adoption")
        /\ \E k \in NegativeAt(Val(result).top_factors) :
              Val(result).top_factors[k].factor = "Detractor NPS"

\* C20's case: the at-risk account with the fastest time to value has been
\* scored
C20_Witness ==
    /\ ~IsNone(result)
    /\ IsAtRiskScenario(subject, now)
    /\ subject.time_to_value_days = Some(0)
    /\ Val(result).risk_label = "Red"

(***************************************************************************)
(* Properties of repeated scoring, under SpecRescore                       *)
(***************************************************************************)
\* C11: score_account is a pure function of the account's fields: a second
\* call on the unchanged account returns the (score, factors, bucket) of the
\* first, whatever happened in between.
C11_ScoreAccountIsPure == last.op = "again" => last.result = Val(result)

\* C17: with every other field and the clock fixed, more active users never
\* lower the adoption-ratio sub-score nor the final score, and more tickets in
\* the last 30 days never raise the tickets sub-score nor the final score.
C17_SubScoresMonotone ==
    /\ last.op = "more_users" =>
          /\ RLe(last.sub_score, last.more_sub_score)
          /\ RLe(last.score, last.more_score)
    /\ last.op = "more_tickets" =>
          /\ RLe(last.more_sub_score, last.sub_score)
          /\ RLe(last.more_score, last.score)

\* C17's case: an account scored with 15 tickets and with more, the tickets
\* sub-score and the final score both lower with more
C17_Witness ==
    /\ last.op = "more_tickets"
    /\ subject.tickets_last_30d = 15
    /\ RLt(last.more_sub_score, last.sub_score)
    /\ RLt(last.more_score, last.score)

(***************************************************************************)
(* Properties of the single terms of the score, under SpecEdges            *)
(***************************************************************************)
\* the entries of fs labelled name
FactorsNamed(fs, name) == SelectSeq(fs, LAMBDA f : f.factor = name)

\* fs has exactly one entry labelled name, and its impact is impact rounded to
\* one decimal
OneFactor(fs, name, impact) ==
    FactorsNamed(fs, name) = <<[factor |-> name, impact |-> Round1(impact)]>>

\* min(10, 20 * expansion_oppty_dollar / arr) if both are positive, else 0
ExpectedBonus(a) ==
    IF a.expansion_oppty_dollar > 0 /\ a.arr > 0
    THEN (IF 2 * a.expansion_oppty_dollar >= a.arr THEN Int2Q(10)
          ELSE Q(20 * a.expansion_oppty_dollar, a.arr))
    ELSE Int2Q(0)

\* the renewal date is set and lies 0 to 60 days ahead of day today, and fewer
\* than half of the seats are active
RenewalIsAtRisk(a, today) ==
    /\ ~IsNone(a.renewal_date)
    /\ Val(a.renewal_date) >= today
    /\ Val(a.renewal_date) <= today + 60
    /\ 2 * a.active_users < a.seats_purchased

\* the commercial adjustment of parts for account a with emitted factors fs and
\* returned score: bonus and penalty as stated, each whatever the other is
CommercialAsStated(a, today, parts, fs, score) ==
    /\ RLe(Int2Q(-5), CommercialBonus(parts))
    /\ RLe(CommercialBonus(parts), Int2Q(10))
    /\ parts[12].score = ExpectedBonus(a)
    /\ IF RLe(Int2Q(5), ExpectedBonus(a))
       THEN OneFactor(fs, "Strong expansion opportunity", ExpectedBonus(a))
       ELSE ~HasFactor(fs, "Strong expansion opportunity")
    /\ parts[13].score = (IF RenewalIsAtRisk(a, today) THEN Int2Q(-5) ELSE Int2Q(0))
    /\ CommercialBonus(parts) = RAdd(ExpectedBonus(a), parts[13].score)
    /\ score = ClampScore(RAdd(BaseScore(parts), CommercialBonus(parts)))

\* C22: the commercial adjustment lies in [-5, +10] and is the sum of two
\* independent parts: the expansion bonus min(10, 20 * expansion_oppty_dollar /
\* arr) when both are positive and 0 otherwise, with the factor 'Strong
\* expansion opportunity' emitted exactly when the bonus is at least 5, and
\* the renewal penalty, applied whether or not the bonus applies.
C22_CommercialAdjustment ==
    ~IsNone(result) =>
        CommercialAsStated(subject, Today(now), ScoreParts(subject, now),
                           AllFactors(ScoreParts(subject, now)), Val(result).score)

\* C22's case: an account with an expansion bonus of exactly 5 and the renewal
\* penalty has been scored, the two cancelling out
C22_Witness ==
    /\ ~IsNone(result)
    /\ ExpectedBonus(subject) = Int2Q(5)
    /\ RenewalIsAtRisk(subject, Today(now))
    /\ HasFactor(Val(result).top_factors, "Strong expansion opportunity")
    /\ HasFactor(Val(result).top_factors, "Renewal risk: low adoption")
    /\ CommercialBonus(ScoreParts(subject, now)) = Int2Q(0)

\* the renewal penalty of parts and its factor among the emitted factors fs
\* are there exactly when the renewal of account a is at risk
RenewalPenaltyAsStated(a, today, parts, fs) ==
    IF RenewalIsAtRisk(a, today)
    THEN /\ parts[13].score = Int2Q(-5)
         /\ OneFactor(fs, "Renewal risk: low adoption", Int2Q(-5))
    ELSE /\ parts[13].score = Int2Q(0)
         /\ ~HasFactor(fs, "Renewal risk: low adoption")

\* C23: the renewal-risk penalty of exactly -5 is applied, and the factor
\* 'Renewal risk: low adoption' with impact -5 emitted, if and only if
\* renewal_date is set, lies between today and 60 days from today inclusive,
\* and the capped adoption ratio is below 0.5; a past renewal date, one more
\* than 60 days out or a ratio of 0.5 or more gives no penalty and no factor.
C23_RenewalPenaltyIff ==
    ~IsNone(result) =>
        /\ RenewalPenaltyAsStated(subject, Today(now), ScoreParts(subject, now),
                                  AllFactors(ScoreParts(subject, now)))
        /\ HasFactor(Val(result).top_factors, "Renewal risk: low adoption")
              => RenewalIsAtRisk(subject, Today(now))

\* C23's case: an account with 49 of 100 seats active and the renewal exactly
\* 60 days ahead has been scored with the penalty
C23_Witness ==
    /\ ~IsNone(result)
    /\ subject.renewal_date = Some(Today(now) + 60)
    /\ subject.active_users = 49 /\ subject.seats_purchased = 100
    /\ ScoreParts(subject, now)[13].score = Int2Q(-5)
    /\ HasFactor(Val(result).top_factors, "Renewal risk: low adoption")

\* min(1.2, active_users / seats_purchased)
CappedRatio(a) ==
    IF 5 * a.active_users >= 6 * a.seats_purchased THEN Q(6, 5)
    ELSE Q(a.active_users, a.seats_purchased)

\* the labels of the adoption-ratio factor
AdoptionLabels == {"Strong user adoption", "Low user adoption", "Moderate user adoption"}

\* the adoption-ratio sub-score sub of account a is 20 * ratio / 1.2, and fs
\* holds exactly one adoption-ratio factor, the one of the ratio's band
AdoptionAsStated(a, ratio, sub, fs) ==
    /\ sub = RDiv(RMul(Int2Q(20), ratio), Q(6, 5))
    /\ Len(SelectSeq(fs, LAMBDA f : f.factor \in AdoptionLabels)) = 1
    /\ IF 10 * ratio.n >= 9 * ratio.d THEN OneFactor(fs, "Strong user adoption", sub)
       ELSE IF 10 * ratio.n < 3 * ratio.d
       THEN OneFactor(fs, "Low user adoption", RSub(sub, Int2Q(20)))
       ELSE OneFactor(fs, "Moderate user adoption", RSub(sub, Int2Q(10)))

\* C24: every scoring emits exactly one adoption-ratio factor: with ratio =
\* min(1.2, active_users / seats_purchased) and sub-score = 20 * ratio / 1.2 it
\* is 'Strong user adoption' with the sub-score as impact when ratio >= 0.9,
\* 'Low user adoption' with sub-score - 20 when ratio < 0.3, and otherwise
\* 'Moderate user adoption' with sub-score - 10, impacts rounded to 0.1.
C24_OneAdoptionFactor ==
    ~IsNone(result) =>
        /\ AdoptionAsStated(subject, CappedRatio(subject), ScoreParts(subject, now)[1].score,
                            AllFactors(ScoreParts(subject, now)))
        /\ Len(SelectSeq(Val(result).top_factors, LAMBDA f : f.factor \in AdoptionLabels)) <= 1

\* C24's case: an account with a ratio of exactly 0.3 has been scored with
\* 'Moderate user adoption' at -5
C24_Witness ==
    /\ ~IsNone(result)
    /\ CappedRatio(subject) = Q(3, 10)
    /\ \E i \in 1..Len(Val(result).top_factors) :
          Val(result).top_factors[i] =
              [factor |-> "Moderate user adoption", impact |-> Int2Q(-5)]

\* the onboarding sub-score sub and the emitted factors fs of an account
\* created days whole days ago
OnboardingAsStated(a, days, sub, fs) ==
    /\ ~a.onboarding_phase => sub = Int2Q(5)
    /\ (a.onboarding_phase /\ days <= 30) => sub = Int2Q(3)
    /\ (a.onboarding_phase /\ days > 30) => sub = Int2Q(0)
    /\ IF a.onboarding_phase /\ days > 30
       THEN OneFactor(fs, "Extended onboarding", Int2Q(-5))
       ELSE ~HasFactor(fs, "Extended onboarding")

\* C25: onboarding hygiene contributes 5 points when the account is not
\* onboarding, 3 points when it is onboarding and was created at most 30 days
\* ago and 0 points when onboarding for more than 30 days (in whole days);
\* 'Extended onboarding' with impact -5 is emitted if and only if the account
\* is onboarding for more than 30 days.
C25_OnboardingPoints ==
    ~IsNone(result) =>
        /\ OnboardingAsStated(subject, DaysBetween(subject.created_at, now),
                              ScoreParts(subject, now)[11].score,
                              AllFactors(ScoreParts(subject, now)))
        /\ HasFactor(Val(result).top_factors, "Extended onboarding")
              => (subject.onboarding_phase /\ DaysBetween(subject.created_at, now) > 30)

\* C25's case: an account onboarding for exactly 30 days has been scored with
\* 3 points and no factor
C25_Witness ==
    /\ ~IsNone(result)
    /\ subject.onboarding_phase
    /\ DaysBetween(subject.created_at, now) = 30
    /\ ScoreParts(subject, now)[11].score = Int2Q(3)
    /\ ~HasFactor(Val(result).top_factors, "Extended onboarding")

\* the labels framed as a risk
NegativeLabels ==
    {"Low user adoption", "Low feature adoption", "Low weekly engagement",
     "Slow time to value", "High ticket volume", "Multiple critical issues",
     "SLA breaches", "Detractor NPS", "Overdue QBR", "No QBR history",
     "Extended onboarding", "Renewal risk: low adoption"}

\* the labels framed as a strength
PositiveLabels ==
    {"Strong user adoption", "High feature adoption", "Fast time to value",
     "Zero support tickets", "Promoter NPS", "Strong expansion opportunity"}

\* every factor of fs framed as a risk has an impact below 0, every one framed
\* as a strength an impact above 0
SignsMatch(fs) ==
    \A i \in 1..Len(fs) :
        /\ fs[i].factor \in NegativeLabels => fs[i].impact.n < 0
        /\ fs[i].factor \in PositiveLabels => fs[i].impact.n > 0

\* C26: the sign of a factor's impact matches its framing for every valid
\* account, among the factors emitted and among those returned.
C26_ImpactSignMatchesFraming ==
    ~IsNone(result) =>
        /\ SignsMatch(AllFactors(ScoreParts(subject, now)))
        /\ SignsMatch(Val(result).top_factors)
        /\ \A i \in 1..Len(Val(result).top_factors) :
              Val(result).top_factors[i].factor \in FactorNames

\* C26's case: an account just across the threshold of eleven risks, with an
\* expansion bonus of exactly 5, has been scored
C26_Witness ==
    /\ ~IsNone(result)
    /\ Cardinality({i \in 1..Len(AllFactors(ScoreParts(subject, now))) :
                       AllFactors(ScoreParts(subject, now))[i].factor \in NegativeLabels}) = 11
    /\ HasFactor(Val(result).top_factors, "Strong expansion opportunity")
    /\ HasFactor(AllFactors(ScoreParts(subject, now)), "Overdue QBR")
    /\ HasFactor(AllFactors(ScoreParts(subject, now)), "Slow time to value")

(***************************************************************************)
(* Properties of the stored rows across ingestion and mock data, under     *)
(* Spec                                                                    *)
(***************************************************************************)
\* the bucket of a score: Green from 75, Amber from 50, Red below
BucketOf(score) ==
    IF score.n >= 75 * score.d THEN "Green"
    ELSE IF score.n >= 50 * score.d THEN "Amber"
    ELSE "Red"

\* snapshot s is consistent in itself and references an account of accs
SelfConsistent(s, accs) ==
    /\ s.score.n >= 0
    /\ s.score.n <= 110 * s.score.d
    /\ s.risk_label = BucketOf(s.score)
    /\ Len(s.top_factors) <= 10
    /\ s.account_id \in DOMAIN accs

\* C27: every HealthSnapshot in the store is self-consistent in every
\* reachable state: its score is in [0, 110], its risk_label is the bucket of
\* its own score, it holds at most 10 factors, and it references an existing
\* account.
C27_SnapshotsSelfConsistent ==
    \A i \in 1..Len(snapshots) : SelfConsistent(snapshots[i], accounts)

\* C27's case: mock data generated at the second instant has left one account
\* whose one snapshot is Green with a score above 75
C27_Witness ==
    /\ last.op = "mock"
    /\ now = 2
    /\ Cardinality(DOMAIN accounts) = 1
    /\ Len(snapshots) = 1
    /\ snapshots[1].risk_label = "Green"
    /\ RLt(Int2Q(75), snapshots[1].score)

\* no two accounts of accs have one name
NamesUnique(accs) ==
    \A a, b \in DOMAIN accs : accs[a].name = accs[b].name => a = b

\* no two rows of ms are of one account and one date
MetricDaysUnique(ms) ==
    \A i, j \in 1..Len(ms) :
        (ms[i].account_id = ms[j].account_id /\ ms[i].date = ms[j].date) => i = j

\* the names of the rows of a file
FileNames(file) == {file[i].name : i \in 1..Len(file)}

\* C28: CSV ingestion is get-or-create: whatever requests have run there is
\* at most one Account per name and at most one AccountMetricsDaily row per
\* (account, date); and an ingest of the file the request before it ingested
\* without an error adds no account and no daily-metric row, and appends one
\* snapshot to each account of the file it processes without an error, none
\* to any other.
C28_IngestIsGetOrCreate ==
    [][/\ NamesUnique(accounts')
       /\ MetricDaysUnique(metrics')
       /\ (last.op = "ingest" /\ last'.op = "ingest" /\ last.errors = <<>>
              /\ last'.file = last.file) =>
             /\ DOMAIN accounts' = DOMAIN accounts
             /\ metrics' = metrics
             /\ last'.accounts_created = 0
             /\ last'.metrics_created = 0
             /\ last'.accounts_updated = Cardinality(FileNames(last.file))
             /\ \A id \in DOMAIN accounts :
                   IF /\ accounts[id].name \in FileNames(last.file)
                      /\ \A k \in 1..Len(last'.errors) : last'.errors[k] # accounts[id].name
                   THEN OneAppended(SnapshotsOf(snapshots, id), SnapshotsOf(snapshots', id))
                   ELSE SnapshotsOf(snapshots', id) = SnapshotsOf(snapshots, id)]_vars

\* C28's case: the file of the two healthy accounts, each with a dated row, has
\* been ingested a second time: two accounts, two daily-metric rows, two
\* snapshots each
C28_Witness ==
    /\ last.op = "ingest"
    /\ last.file = <<HealthyRow("Acme Corp"), HealthyRow("TechStart Inc")>>
    /\ last.accounts_created = 0 /\ last.accounts_updated = 2
    /\ last.metrics_created = 0 /\ last.errors = <<>>
    /\ Cardinality(DOMAIN accounts) = 2
    /\ Len(metrics) = 2
    /\ \A id \in DOMAIN accounts :
          /\ Len(SnapshotsOf(snapshots, id)) = 2
          /\ SnapshotsOf(snapshots, id)[1].risk_label = "Green"

C30_MockDataLeavesCountAccounts ==
    (last.op = "mock" /\ last.errors = <<>>) =>
        /\ Cardinality(DOMAIN accounts) = last.count
        /\ last.accounts_created = last.count
        /\ NamesUnique(accounts)
        /\ Len(snapshots) = last.count
        /\ Len(metrics) = MockMetricDays * last.count
        /\ \A id \in DOMAIN accounts :
              /\ Len(SnapshotsOf(snapshots, id)) = 1
              /\ Cardinality({i \in 1..Len(metrics) : metrics[i].account_id = id})
                     = MockMetricDays

====
